---- MODULE Spec2Model ----
(***************************************************************************)
(* A model of tev's image canvas (src/src/ImageCanvas.cpp): the per-pixel  *)
(* operators, the channel compositor (channelsFromImages), the crop        *)
(* rectangle of computeCanvasStatistics and the statistics cache           *)
(* (canvasStatistics, mMeanValues).                                        *)
(*                                                                         *)
(* Floats are modelled as exact rationals together with NaN and the two    *)
(* infinities; rounding is not modelled.                                   *)
(***************************************************************************)
EXTENDS Integers, Sequences, FiniteSets, TLC

VARIABLES
    \* ---- fields of ImageCanvas ----
    mImage,                 \* the primary image: the id of a loaded image, 0 if null
    mReference,             \* the reference image: the id of a loaded image, 0 if null
    mRequestedChannelGroup, \* name of the selected channel group
    mMetric,                \* EMetric
    mPostProcessing,        \* EPostProcessing
    mIsCropped,             \* BOOLEAN
    mCropMin,               \* <<x, y>>
    mCropMax,               \* <<x, y>>
    mMeanValues,            \* the statistics cache: a set of nodes [key, handle]
    \* ---- the Lazy objects and mMeanValueThreadPool ----
    lazies,                 \* handle -> the Lazy created by canvasStatistics
    requested,              \* history: key -> the handle its first request returned
    lastRequest,            \* the canvasStatistics call that has just returned
    threads,                \* concurrent callers of canvasStatistics
    \* ---- one invocation of a static function of ImageCanvas ----
    pc,                     \* which function is being run, and how far it is
    input,                  \* its arguments
    output,                 \* its result
    pool                    \* the tasks of the ThreadPool it made

canvasVars == <<mImage, mReference, mRequestedChannelGroup, mMetric,
                mPostProcessing, mIsCropped, mCropMin, mCropMax>>
cacheVars == <<mMeanValues, lazies, requested, lastRequest, threads>>
callVars == <<pc, input, output, pool>>
vars == <<canvasVars, cacheVars, callVars>>

-----------------------------------------------------------------------------
(* Float values: [k |-> "num", n, d] is the rational n/d (d > 0, lowest     *)
(* terms), [k |-> "inf", n |-> 1 or -1] an infinity, [k |-> "nan"] NaN,     *)
(* [k |-> "throw"] stands for the runtime_error an operator throws.         *)

Abs(i) == IF i < 0 THEN -i ELSE i

RECURSIVE GCD(_, _)
GCD(a, b) == IF b = 0 THEN a ELSE GCD(b, a % b)

Rat(n, d) ==
    LET g == GCD(Abs(n), Abs(d))
        s == IF d < 0 THEN -1 ELSE 1
    IN  [k |-> "num", n |-> s * (n \div g), d |-> s * (d \div g)]

Num(i) == [k |-> "num", n |-> i, d |-> 1]
NaN == [k |-> "nan", n |-> 0, d |-> 1]
Inf(s) == [k |-> "inf", n |-> s, d |-> 1]
Throw == [k |-> "throw", n |-> 0, d |-> 1]

IsNum(v) == v.k = "num"
IsNaN(v) == v.k = "nan"
IsInf(v) == v.k = "inf"
Sign(v) == IF v.n > 0 THEN 1 ELSE IF v.n < 0 THEN -1 ELSE 0

\* a < b as C++ compares floats: false whenever an operand is NaN
Less(a, b) ==
    IF IsNaN(a) \/ IsNaN(b) THEN FALSE
    ELSE IF IsInf(a) /\ IsInf(b) THEN a.n < b.n
    ELSE IF IsInf(a) THEN a.n < 0
    ELSE IF IsInf(b) THEN b.n > 0
    ELSE a.n * b.d < b.n * a.d

LessEq(a, b) == ~IsNaN(a) /\ ~IsNaN(b) /\ ~Less(b, a)

Neg(a) == IF IsNum(a) \/ IsInf(a) THEN [a EXCEPT !.n = -a.n] ELSE a

Add(a, b) ==
    IF IsNaN(a) \/ IsNaN(b) THEN NaN
    ELSE IF IsInf(a) /\ IsInf(b) THEN (IF a.n = b.n THEN a ELSE NaN)
    ELSE IF IsInf(a) THEN a
    ELSE IF IsInf(b) THEN b
    ELSE Rat(a.n * b.d + b.n * a.d, a.d * b.d)

Sub(a, b) == Add(a, Neg(b))

Mul(a, b) ==
    IF IsNaN(a) \/ IsNaN(b) THEN NaN
    ELSE IF IsInf(a) \/ IsInf(b)
         THEN (IF Sign(a) * Sign(b) = 0 THEN NaN ELSE Inf(Sign(a) * Sign(b)))
    ELSE LET g1 == GCD(Abs(a.n), b.d)
             g2 == GCD(Abs(b.n), a.d)
         IN  Rat((a.n \div g1) * (b.n \div g2), (a.d \div g2) * (b.d \div g1))

Div(a, b) ==
    IF IsNaN(a) \/ IsNaN(b) THEN NaN
    ELSE IF IsInf(a) /\ IsInf(b) THEN NaN
    ELSE IF IsInf(a) THEN Inf(a.n * (IF Sign(b) < 0 THEN -1 ELSE 1))
    ELSE IF IsInf(b) THEN Num(0)
    ELSE IF b.n = 0 THEN (IF a.n = 0 THEN NaN ELSE Inf(Sign(a)))
    ELSE Mul(a, Rat(b.d, b.n))

\* std::abs
FAbs(a) == IF IsNum(a) \/ IsInf(a) THEN [a EXCEPT !.n = Abs(a.n)] ELSE a

\* std::min(a, b) is (b < a) ? b : a
StdMin(a, b) == IF Less(b, a) THEN b ELSE a
\* std::max(a, b) is (a < b) ? b : a
StdMax(a, b) == IF Less(a, b) THEN b ELSE a

-----------------------------------------------------------------------------
(* The enumerations, and the metric and post-processing operators.          *)

EMetric == {"Error", "AbsoluteError", "SquaredError", "RelativeAbsoluteError",
            "RelativeSquaredError", "Division"}
EPostProcessing == {"Identity", "Square", "Clip10", "Clip100", "Magnitude"}
\* the variants applyPostProcessing has a case for
CpuPostProcessing == {"Identity", "Square", "Clip10", "Clip100"}

\* the 0.001f of applyMetric
Epsilon == Rat(1, 1000)

\* diff computed as a sum
applyMetricSum(image, reference, metric) ==
    LET diff == Add(image, reference) IN
    CASE metric = "Error" -> diff
      [] metric = "AbsoluteError" -> FAbs(diff)
      [] metric = "SquaredError" -> Mul(diff, diff)
      [] metric = "RelativeAbsoluteError" ->
            Div(FAbs(diff), Add(reference, Epsilon))
      [] metric = "RelativeSquaredError" ->
            Div(Mul(diff, diff), Add(Mul(reference, reference), Epsilon))
      [] metric = "Division" ->
            Div(Add(image, Epsilon), Add(reference, Epsilon))
      [] OTHER -> Throw

applyMetric(image, reference, metric) ==
    LET diff == Sub(image, reference) IN
    CASE metric = "Error" -> diff
      [] metric = "AbsoluteError" -> FAbs(diff)
      [] metric = "SquaredError" -> Mul(diff, diff)
      [] metric = "RelativeAbsoluteError" ->
            Div(FAbs(diff), Add(reference, Epsilon))
      [] metric = "RelativeSquaredError" ->
            Div(Mul(diff, diff), Add(Mul(reference, reference), Epsilon))
      [] metric = "Division" ->
            Div(Add(image, Epsilon), Add(reference, Epsilon))
      [] OTHER -> Throw

ClipLimit10 == 10
ClipLimit100 == 100

\* the Clip10 and Clip100 limits exchanged
applyPostProcessingSwappedClip(image, postProcessing) ==
    CASE postProcessing = "Identity" -> image
      [] postProcessing = "Square" -> Mul(image, image)
      [] postProcessing = "Clip10" -> StdMin(image, Num(ClipLimit100))
      [] postProcessing = "Clip100" -> StdMin(image, Num(ClipLimit10))
      [] OTHER -> Throw

applyPostProcessing(image, postProcessing) ==
    CASE postProcessing = "Identity" -> image
      [] postProcessing = "Square" -> Mul(image, image)
      [] postProcessing = "Clip10" -> StdMin(image, Num(ClipLimit10))
      [] postProcessing = "Clip100" -> StdMin(image, Num(ClipLimit100))
      [] OTHER -> Throw

-----------------------------------------------------------------------------
(* The crop rectangle computeCanvasStatistics iterates over.                *)

Min2(a, b) == IF a < b THEN a ELSE b
Max2(a, b) == IF a > b THEN a ELSE b

\* cropMin / cropMax after the swap of lines 696-699, per axis
cropSwap(cropMin, cropMax) ==
    << <<IF cropMin[1] > cropMax[1] THEN cropMax[1] ELSE cropMin[1],
         IF cropMin[2] > cropMax[2] THEN cropMax[2] ELSE cropMin[2]>>,
       <<IF cropMin[1] > cropMax[1] THEN cropMin[1] ELSE cropMax[1],
         IF cropMin[2] > cropMax[2] THEN cropMin[2] ELSE cropMax[2]>> >>

\* the clamp without its .max(0)
cropClampNoFloor(v, size) ==
    <<Min2(v[1], size[1]), Min2(v[2], size[2])>>

\* v.array().min(size.array()).max(0)
cropClamp(v, size) ==
    <<Max2(Min2(v[1], size[1]), 0), Max2(Min2(v[2], size[2]), 0)>>

\* the pair <<cropMin, cropMax>> the loops of computeCanvasStatistics use
cropRectangle(isCropped, cropMin, cropMax, size) ==
    LET c0 == IF ~isCropped THEN <<0, 0>> ELSE cropMin
        c1 == IF ~isCropped THEN size ELSE cropMax
        sw == cropSwap(c0, c1)
    IN  <<cropClamp(sw[1], size), cropClamp(sw[2], size)>>

-----------------------------------------------------------------------------
(* Images and channels. A name is a sequence of characters. An image is     *)
(* [id, size, groups, data]: groups maps a channel-group name to the list   *)
(* of channel names channelsInGroup returns for it (which may name one      *)
(* channel several times, cf. the "Remove duplicates" of draw), data maps a *)
(* channel name to its samples, a function on the flat indices              *)
(* 0 .. w*h - 1, row by row.                                                *)

\* a null shared_ptr<Image>
NoImage == [id |-> 0]

IsNull(image) == image.id = 0

RECURSIVE LastIndexOf(_, _)
\* the largest i with s[i] = c, or 0
LastIndexOf(s, c) ==
    IF Len(s) = 0 THEN 0
    ELSE IF s[Len(s)] = c THEN Len(s)
    ELSE LastIndexOf(SubSeq(s, 1, Len(s) - 1), c)

\* Channel::tail: the part of the name after its last '.'
tail(name) == SubSeq(name, LastIndexOf(name, ".") + 1, Len(name))

UpperChar(c) ==
    CASE c = "a" -> "A" [] c = "b" -> "B" [] c = "g" -> "G"
      [] c = "l" -> "L" [] c = "r" -> "R" [] OTHER -> c

toUpper(name) == [i \in 1..Len(name) |-> UpperChar(name[i])]

AlphaName == <<"A">>

count(size) == size[1] * size[2]

\* Channel::eval(DenseIndex)
eval(chan, j) == chan.data[j]

\* Channel::eval(Vector2i): 0 outside the channel
evalAt(chan, x, y) ==
    IF x < 0 \/ x >= chan.size[1] \/ y < 0 \/ y >= chan.size[2]
    THEN Num(0)
    ELSE chan.data[x + y * chan.size[1]]

\* Image::channel(name)
channel(image, name) == [name |-> name, size |-> image.size, data |-> image.data[name]]

\* Image::channelsInGroup(groupName)
channelsInGroup(image, group) == image.groups[group]

\* C++ integer division, which truncates toward zero
TruncDiv(a, b) == IF a >= 0 THEN a \div b ELSE -((-a) \div b)

-----------------------------------------------------------------------------
(* channelsFromImages                                                       *)

\* the offset with the operands of the subtraction exchanged
centeringOffsetReversed(referenceSize, size) ==
    <<TruncDiv(size[1] - referenceSize[1], 2), TruncDiv(size[2] - referenceSize[2], 2)>>

\* Vector2i offset = (reference->size() - size) / 2
centeringOffset(referenceSize, size) ==
    <<TruncDiv(referenceSize[1] - size[1], 2), TruncDiv(referenceSize[2] - size[2], 2)>>

\* bool onlyAlpha = all_of(result, name == "A")
onlyAlpha(names) == \A i \in 1..Len(names) : names[i] = AlphaName

\* the names of the result channels (lines 577-580)
resultNames(image, group) ==
    LET channelNames == channelsInGroup(image, group)
    IN  [i \in 1..Len(channelNames) |-> toUpper(tail(channelNames[i]))]

\* lines 607-610: alpha where the reference has a channel at the index
alphaSample(p, r) == Mul(Rat(1, 2), Add(p, r))

\* the missing reference alpha taken as 0 and averaged in
alphaSampleHalved(p) == Mul(Rat(1, 2), Add(p, Num(0)))

\* line 631: alpha where the reference has no channel at the index
alphaSampleNoReference(p) == p

\* lines 616-623
dataSample(p, r, metric, postProcessing) ==
    applyPostProcessing(applyMetric(p, r, metric), postProcessing)

\* the metric left out where the reference has no channel
dataSampleNoMetric(p, metric, postProcessing) ==
    applyPostProcessing(p, postProcessing)

\* lines 637-644: data where the reference has no channel at the index
dataSampleNoReference(p, metric, postProcessing) ==
    applyPostProcessing(applyMetric(p, Num(0), metric), postProcessing)

\* the value written to result[i].at({x, y}) (lines 586-649)
compositeSample(image, reference, group, metric, postProcessing, names, i, x, y) ==
    LET channelNames == channelsInGroup(image, group)
        chan == channel(image, channelNames[i])
    IN  IF IsNull(reference)
        THEN applyPostProcessing(eval(chan, x + y * image.size[1]), postProcessing)
        ELSE
          LET offset == centeringOffset(reference.size, image.size)
              referenceChannels == channelsInGroup(reference, group)
              isAlpha == ~onlyAlpha(names) /\ names[i] = AlphaName
          IN  IF i <= Len(referenceChannels)
              THEN LET referenceChan == channel(reference, referenceChannels[i])
                       r == evalAt(referenceChan, x + offset[1], y + offset[2])
                   IN  IF isAlpha
                       THEN alphaSample(evalAt(chan, x, y), r)
                       ELSE dataSample(evalAt(chan, x, y), r, metric, postProcessing)
              ELSE IF isAlpha
                   THEN alphaSampleNoReference(evalAt(chan, x, y))
                   ELSE dataSampleNoReference(evalAt(chan, x, y), metric, postProcessing)

\* the result channels for the given result names
compositeChannels(image, reference, group, metric, postProcessing, names) ==
    [i \in 1..Len(names) |->
       [name |-> names[i],
        size |-> image.size,
        data |-> [j \in 0..(count(image.size) - 1) |->
                    compositeSample(image, reference, group, metric, postProcessing,
                                    names, i, j % image.size[1], j \div image.size[1])]]]

RECURSIVE Dedup(_)
\* the list without the later occurrences of a name
Dedup(seq) ==
    IF Len(seq) = 0 THEN <<>>
    ELSE LET front == Dedup(SubSeq(seq, 1, Len(seq) - 1))
         IN  IF seq[Len(seq)] \in {front[k] : k \in 1..Len(front)}
             THEN front ELSE Append(front, seq[Len(seq)])

\* the compositor with the group listing de-duplicated first
channelsFromImagesDedup(image, reference, group, metric, postProcessing) ==
    IF IsNull(image) THEN <<>>
    ELSE LET names == Dedup(resultNames(image, group))
         IN  compositeChannels(image, reference, group, metric, postProcessing, names)

channelsFromImages(image, reference, group, metric, postProcessing) ==
    IF IsNull(image) THEN <<>>
    ELSE compositeChannels(image, reference, group, metric, postProcessing,
                           resultNames(image, group))

-----------------------------------------------------------------------------
(* The cache key of canvasStatistics: a string, as a sequence of characters.*)

Digits == <<"0", "1", "2", "3", "4", "5", "6", "7", "8", "9">>

RECURSIVE NatToStr(_)
NatToStr(n) ==
    IF n < 10 THEN <<Digits[n + 1]>>
    ELSE NatToStr(n \div 10) \o <<Digits[(n % 10) + 1]>>

\* std::to_string(int), and "%d" of tfm::format
IntToStr(i) == IF i < 0 THEN <<"-">> \o NatToStr(-i) ELSE NatToStr(i)

RECURSIVE join(_, _)
\* join(components, delim)
join(components, delim) ==
    IF Len(components) = 0 THEN <<>>
    ELSE IF Len(components) = 1 THEN components[1]
    ELSE components[1] \o delim \o join(Tail(components), delim)

\* the integer "%d" prints for an enumerator: its position in the enumeration
MetricId(metric) ==
    CASE metric = "Error" -> 0
      [] metric = "AbsoluteError" -> 1
      [] metric = "SquaredError" -> 2
      [] metric = "RelativeAbsoluteError" -> 3
      [] metric = "RelativeSquaredError" -> 4
      [] metric = "Division" -> 5

PostProcessingId(postProcessing) ==
    CASE postProcessing = "Identity" -> 0
      [] postProcessing = "Square" -> 1
      [] postProcessing = "Clip10" -> 2
      [] postProcessing = "Clip100" -> 3
      [] postProcessing = "Magnitude" -> 4

Dash == <<"-">>

\* the "-crop-..." suffix of lines 527-533
cropSuffix(isCropped, cropMin, cropMax) ==
    IF isCropped
    THEN <<"-", "c", "r", "o", "p">>
         \o Dash \o IntToStr(cropMin[1]) \o Dash \o IntToStr(cropMin[2])
         \o Dash \o IntToStr(cropMax[1]) \o Dash \o IntToStr(cropMax[2])
    ELSE <<>>

\* the key of lines 522-533, for the settings record c =
\* [image, reference, group, metric, postProcessing, isCropped, cropMin, cropMax]
statisticsKey(c) ==
    LET channels == join(channelsInGroup(c.image, c.group), <<",">>)
    IN  (IF ~IsNull(c.reference)
         THEN IntToStr(c.image.id) \o Dash \o channels
              \o Dash \o IntToStr(c.reference.id)
              \o Dash \o IntToStr(MetricId(c.metric))
              \o Dash \o IntToStr(PostProcessingId(c.postProcessing))
         ELSE IntToStr(c.image.id) \o Dash \o channels
              \o Dash \o IntToStr(PostProcessingId(c.postProcessing)))
        \o cropSuffix(c.isCropped, c.cropMin, c.cropMax)

-----------------------------------------------------------------------------
(* The states in which a part of the model is not in use.                   *)

\* a null shared_ptr<Lazy<...>>
NullHandle == [creator |-> 0, key |-> <<>>, gen |-> 0]

NoRequest == [returned |-> FALSE, key |-> <<>>, handle |-> NullHandle,
              seenBefore |-> FALSE, scheduledNow |-> FALSE]

IdleCanvas ==
    /\ mImage = 0
    /\ mReference = 0
    /\ mRequestedChannelGroup = ""
    /\ mMetric = "Error"
    /\ mPostProcessing = "Identity"
    /\ mIsCropped = FALSE
    /\ mCropMin = <<0, 0>>
    /\ mCropMax = <<0, 0>>

IdleCache ==
    /\ mMeanValues = {}
    /\ lazies = <<>>
    /\ requested = <<>>
    /\ lastRequest = NoRequest
    /\ threads = <<>>

IdleCall ==
    /\ pc = "idle"
    /\ input = <<>>
    /\ output = <<>>
    /\ pool = <<>>

-----------------------------------------------------------------------------
(* applyPostProcessing called on one value.                                 *)

\* bounds of the float inputs: n/d with |n| <= MaxNumerator, 1 <= d <= MaxDenominator
MaxNumerator == 102
MaxDenominator == 2

FiniteInputs ==
    {Rat(n, d) : n \in -MaxNumerator..MaxNumerator, d \in 1..MaxDenominator}
FloatInputs == FiniteInputs \cup {NaN, Inf(1), Inf(-1)}

InitPostProcessing ==
    /\ IdleCanvas /\ IdleCache
    /\ pc = "applyPostProcessing"
    /\ input \in [image : FloatInputs, postProcessing : EPostProcessing]
    /\ output = NaN
    /\ pool = <<>>

CallApplyPostProcessing ==
    /\ pc = "applyPostProcessing"
    /\ output' = applyPostProcessing(input.image, input.postProcessing)
    /\ pc' = "returned"
    /\ UNCHANGED <<input, pool, canvasVars, cacheVars>>

NextPostProcessing == CallApplyPostProcessing

SpecPostProcessing == InitPostProcessing /\ [][NextPostProcessing]_vars

\* C9: for every finite input, Clip10 returns a value <= 10, Clip100 a value
\* <= 100, Square a value >= 0 and Identity the input unchanged.
C9_PostProcessingRanges ==
    (pc = "returned" /\ IsNum(input.image)) =>
        /\ input.postProcessing = "Clip10" => LessEq(output, Num(10))
        /\ input.postProcessing = "Clip100" => LessEq(output, Num(100))
        /\ input.postProcessing = "Square" => LessEq(Num(0), output)
        /\ input.postProcessing = "Identity" => output = input.image

\* a value above 100 has been clipped by Clip100
C9_Witness ==
    /\ pc = "returned"
    /\ input.postProcessing = "Clip100"
    /\ Less(Num(100), input.image)
    /\ output = Num(100)

-----------------------------------------------------------------------------
(* The crop rectangle of one computeCanvasStatistics call.                  *)

\* images are 1..MaxSize pixels wide and high
MaxSize == 2
\* crop corners range over -CropMargin .. MaxSize + CropMargin
CropMargin == 1

Sizes == (1..MaxSize) \X (1..MaxSize)
CropCorners ==
    ((-CropMargin)..(MaxSize + CropMargin)) \X ((-CropMargin)..(MaxSize + CropMargin))

InitCrop ==
    /\ IdleCanvas /\ IdleCache
    /\ pc = "cropRectangle"
    /\ input \in [isCropped : BOOLEAN, cropMin : CropCorners,
                  cropMax : CropCorners, size : Sizes]
    /\ output = <<<<0, 0>>, <<0, 0>>>>
    /\ pool = <<>>

CallCropRectangle ==
    /\ pc = "cropRectangle"
    /\ output' = cropRectangle(input.isCropped, input.cropMin, input.cropMax,
                               input.size)
    /\ pc' = "returned"
    /\ UNCHANGED <<input, pool, canvasVars, cacheVars>>

NextCrop == CallCropRectangle

SpecCrop == InitCrop /\ [][NextCrop]_vars

\* C10: the rectangle iterated has cropMin <= cropMax componentwise and lies
\* in [0, imageSize] on both axes; with cropping disabled it is exactly
\* (0,0)..imageSize whatever the stored corners are.
C10_CropRectangle ==
    pc = "returned" =>
        /\ \A a \in 1..2 :
              /\ output[1][a] <= output[2][a]
              /\ 0 <= output[1][a] /\ output[1][a] <= input.size[a]
              /\ 0 <= output[2][a] /\ output[2][a] <= input.size[a]
        /\ ~input.isCropped => output = <<<<0, 0>>, input.size>>

\* reversed corners, one negative and one beyond the image, have been
\* swapped and clamped
C10_Witness ==
    /\ pc = "returned"
    /\ input.isCropped
    /\ input.cropMin[1] > input.size[1]
    /\ input.cropMax[1] < 0
    /\ input.cropMin[2] > input.cropMax[2]
    /\ output[1][1] = 0
    /\ output[2][1] = input.size[1]

-----------------------------------------------------------------------------
(* The images the compositor is run on.                                     *)

\* every channel name an image of the model has, in a fixed order
AllChannelNames ==
    << <<"R">>, <<"G">>, <<"A">>, <<"L">>, <<"a", ".", "r">>, <<"a", ".", "a">>,
       <<"a">>, <<"b">>, <<"a", ",", "b">>, <<"R", "-", "2", "-", "0">> >>

Ordinal(name) == CHOOSE i \in 1..Len(AllChannelNames) : AllChannelNames[i] = name

\* the samples range over the halves -3/2 .. 2
ValueSpan == 8

\* the sample at flat index j of the channel: neighbouring pixels and the
\* channels of one image differ; negative, zero and fractional values occur
PixelValue(seed, name, j) ==
    Rat((((2 * seed - 1) * (j + 3 * Ordinal(name))) % ValueSpan) - 3, 2)

Range(seq) == {seq[i] : i \in 1..Len(seq)}

MkImage(id, size, groups, seed) ==
    [id |-> id,
     size |-> size,
     groups |-> groups,
     data |-> [name \in UNION {Range(groups[g]) : g \in DOMAIN groups}
                 |-> [j \in 0..(count(size) - 1) |-> PixelValue(seed, name, j)]]]

\* the sample patterns are numbered 1..MaxSeed
MaxSeed == 2

\* what channelsInGroup lists for the primary: one channel, one channel listed
\* three times, colour and alpha in both orders, alpha alone, prefixed names
PrimaryListings ==
    { << <<"R">> >>,
      << <<"L">>, <<"L">>, <<"L">> >>,
      << <<"R">>, <<"A">> >>,
      << <<"A">>, <<"R">> >>,
      << <<"A">> >>,
      << <<"a", ".", "r">>, <<"a", ".", "a">> >> }

\* and for the reference: no such group, one channel, colour and alpha
ReferenceListings ==
    { << >>,
      << <<"R">> >>,
      << <<"R">>, <<"A">> >>,
      << <<"A">>, <<"R">> >> }

TheGroup == "rgba"

CompositeInputs(sizes, primaryListings, referenceListings, metrics, postProcessings) ==
    UNION {
      LET image == MkImage(1, size, [g \in {TheGroup} |-> listing], seed)
      IN  [image : {image},
           reference : {NoImage, image}
                       \cup {MkImage(2, rsize, [g \in {TheGroup} |-> rlisting],
                                     (seed % MaxSeed) + 1)
                             : rsize \in sizes, rlisting \in referenceListings},
           group : {TheGroup},
           metric : metrics,
           postProcessing : postProcessings]
      : size \in sizes, listing \in primaryListings, seed \in 1..MaxSeed }

InitComposite ==
    /\ IdleCanvas /\ IdleCache
    /\ pc = "channelsFromImages"
    /\ input \in CompositeInputs(Sizes, PrimaryListings, ReferenceListings,
                                 EMetric, EPostProcessing)
    /\ output = <<>>
    /\ pool = <<>>

CallChannelsFromImages ==
    /\ pc = "channelsFromImages"
    /\ output' = channelsFromImages(input.image, input.reference, input.group,
                                    input.metric, input.postProcessing)
    /\ pc' = "returned"
    /\ UNCHANGED <<input, pool, canvasVars, cacheVars>>

NextComposite == CallChannelsFromImages

SpecComposite == InitComposite /\ [][NextComposite]_vars

-----------------------------------------------------------------------------
(* What the claims about channelsFromImages speak of, read off the inputs.  *)

Returned == pc = "returned"
HasReference == input.reference.id # 0
Listing == input.image.groups[input.group]
ReferenceListing == input.reference.groups[input.group]
Width == input.image.size[1]
Height == input.image.size[2]
Pixels == (0..(Width - 1)) \X (0..(Height - 1))

\* the primary sample of listed channel i at pixel px
PrimaryAt(i, px) == input.image.data[Listing[i]][px[1] + px[2] * Width]

\* the reference sample of its listed channel i at coordinate <<x, y>>, 0 outside
ReferenceAt(i, x, y) ==
    IF x < 0 \/ y < 0 \/ x >= input.reference.size[1] \/ y >= input.reference.size[2]
    THEN Num(0)
    ELSE input.reference.data[ReferenceListing[i]][x + y * input.reference.size[1]]

\* the composite sample of channel i at pixel px
OutputAt(i, px) == output[i].data[px[1] + px[2] * Width]

\* channel i of the composite is treated as alpha
TreatedAsAlpha(i) ==
    /\ output[i].name = <<"A">>
    /\ \E k \in 1..Len(output) : output[k].name # <<"A">>

\* the centering offset, stated per axis without the code's division
ExpectedOffset(referenceExtent, extent) ==
    IF referenceExtent >= extent
    THEN CHOOSE o \in 0..referenceExtent :
            2 * o <= referenceExtent - extent /\ referenceExtent - extent < 2 * o + 2
    ELSE -(CHOOSE o \in 0..extent :
            2 * o <= extent - referenceExtent /\ extent - referenceExtent < 2 * o + 2)

\* C4 as claimed: one output channel per distinct name of the group listing
C4_OnePerDistinctName ==
    Returned =>
        /\ Len(output) = Cardinality(Range(Listing))
        /\ \A i \in 1..Len(output) : output[i].size = input.image.size

\* C4 (amended): channelsFromImages returns one output channel per entry of the
\* primary's group listing, duplicates kept, in listing order, each named by the
\* uppercased tail of the listed name and sized to the primary image, whatever
\* the reference's size and channel count.
C4_OnePerListedName ==
    Returned =>
        /\ Len(output) = Len(Listing)
        /\ \A i \in 1..Len(output) :
              /\ output[i].name = toUpper(tail(Listing[i]))
              /\ output[i].size = input.image.size
              /\ DOMAIN output[i].data = 0..(Width * Height - 1)
        /\ Listing = << <<"a", ".", "r">>, <<"a", ".", "a">> >>
              => <<output[1].name, output[2].name>> = << <<"R">>, <<"A">> >>

\* a channel listed three times yields three channels, next to a reference of
\* another size with fewer channels
C4_Witness ==
    /\ Returned
    /\ Len(Listing) = 3 /\ Cardinality(Range(Listing)) = 1
    /\ Len(output) = 3
    /\ HasReference
    /\ input.reference.size # input.image.size
    /\ Len(ReferenceListing) = 1

\* C5 as claimed: alpha is the average of primary and reference at every
\* index, a missing reference sample counting as 0
C5_AlphaAveragedEverywhere ==
    (Returned /\ HasReference) =>
        \A i \in 1..Len(output) : TreatedAsAlpha(i) =>
            \A px \in Pixels :
                LET o == centeringOffset(input.reference.size, input.image.size)
                    r == IF i <= Len(ReferenceListing)
                         THEN ReferenceAt(i, px[1] + o[1], px[2] + o[2])
                         ELSE Num(0)
                IN  OutputAt(i, px) = Mul(Rat(1, 2), Add(PrimaryAt(i, px), r))

\* C5 (amended): with a reference present, an output channel named "A" of a
\* composite that is not entirely alpha is never passed through the metric or
\* post-processing: at an index at which the reference group has a channel
\* every sample is 0.5 * (primary + reference at pixel + offset), and at an
\* index at which it has none every sample is the primary sample unchanged.
C5_AlphaAveragedOrCopied ==
    (Returned /\ HasReference) =>
        \A i \in 1..Len(output) : TreatedAsAlpha(i) =>
            \A px \in Pixels :
                LET o == centeringOffset(input.reference.size, input.image.size)
                IN  IF i <= Len(ReferenceListing)
                    THEN OutputAt(i, px) =
                            Mul(Rat(1, 2), Add(PrimaryAt(i, px),
                                ReferenceAt(i, px[1] + o[1], px[2] + o[2])))
                    ELSE OutputAt(i, px) = PrimaryAt(i, px)

\* alpha at index 2 of a primary whose reference lists one channel: the
\* non-zero primary alpha is copied, under a metric and a post-processing
\* that would have changed it
C5_Witness ==
    /\ Returned /\ HasReference
    /\ Len(Listing) = 2 /\ Len(ReferenceListing) = 1
    /\ TreatedAsAlpha(2)
    /\ input.metric = "SquaredError" /\ input.postProcessing = "Square"
    /\ \E px \in Pixels :
          /\ PrimaryAt(2, px) \notin {Num(0), Num(1)}
          /\ OutputAt(2, px) = PrimaryAt(2, px)

\* C6: with a reference whose group has fewer channels than the primary's,
\* every output channel not treated as alpha at an index beyond the
\* reference's channel count is PostProcessing(Metric(primary sample, 0)) at
\* every pixel, and that is a value (no error) for every post-processing
\* variant the operator implements.
C6_MissingReferenceIsZero ==
    (Returned /\ HasReference) =>
        \A i \in 1..Len(output) :
            (i > Len(ReferenceListing) /\ ~TreatedAsAlpha(i)) =>
                \A px \in Pixels :
                    /\ OutputAt(i, px) =
                          applyPostProcessing(
                              applyMetric(PrimaryAt(i, px), Num(0), input.metric),
                              input.postProcessing)
                    /\ input.postProcessing \in CpuPostProcessing
                          => OutputAt(i, px).k # "throw"

\* a data channel at index 2 beyond a one-channel reference, under Division
C6_Witness ==
    /\ Returned /\ HasReference
    /\ Len(Listing) = 2 /\ Len(ReferenceListing) = 1
    /\ ~TreatedAsAlpha(2)
    /\ input.metric = "Division" /\ input.postProcessing = "Clip100"
    /\ \E px \in Pixels : OutputAt(2, px) = Num(100)

\* C8: with one image as primary and reference and metric Error, every sample
\* of every composite channel not treated as alpha is PostProcessing(0), for
\* every post-processing variant and every finite pixel value.
C8_SelfDifferenceIsZero ==
    (Returned /\ HasReference /\ input.reference = input.image
        /\ input.metric = "Error") =>
        \A i \in 1..Len(output) : ~TreatedAsAlpha(i) =>
            \A px \in Pixels : IsNum(PrimaryAt(i, px)) =>
                OutputAt(i, px) = applyPostProcessing(Num(0), input.postProcessing)

\* a non-zero sample of an image compared with itself has become 0
C8_Witness ==
    /\ Returned /\ HasReference /\ input.reference = input.image
    /\ input.metric = "Error" /\ input.postProcessing = "Clip10"
    /\ Len(output) = 2 /\ ~TreatedAsAlpha(1)
    /\ \E px \in Pixels : PrimaryAt(1, px) # Num(0) /\ OutputAt(1, px) = Num(0)

-----------------------------------------------------------------------------
(* channelsFromImages on single-channel images of up to MaxAlignSize pixels *)
(* per axis, for the alignment of primary and reference.                    *)

MaxAlignSize == 4

AlignSizes == (1..MaxAlignSize) \X (1..MaxAlignSize)

InitAlignment ==
    /\ IdleCanvas /\ IdleCache
    /\ pc = "channelsFromImages"
    /\ input \in CompositeInputs(AlignSizes, {<< <<"R">> >>}, {<< <<"R">> >>},
                                 EMetric, {"Identity"})
    /\ output = <<>>
    /\ pool = <<>>

SpecAlignment == InitAlignment /\ [][NextComposite]_vars

\* C7 as claimed: a 4x4 primary reads a 2x2 reference at (x + 1, y + 1)
C7_OffsetPlusOne ==
    (Returned /\ HasReference /\ input.image.size = <<4, 4>>
        /\ input.reference.size = <<2, 2>>) =>
        \A px \in Pixels :
            OutputAt(1, px) =
                applyPostProcessing(
                    applyMetric(PrimaryAt(1, px),
                                ReferenceAt(1, px[1] + 1, px[2] + 1), input.metric),
                    input.postProcessing)

\* C7 (amended): the reference sample combined with primary pixel (x, y) is
\* read at (x, y) + offset, where the offset is (referenceSize - primarySize) / 2
\* per axis, rounded toward zero; for a 4x4 primary and a 2x2 reference it
\* is (-1,-1), so the sample is read at (x - 1, y - 1), and it is (1,1) for a
\* 2x2 primary and a 4x4 reference.
C7_CenteringOffset ==
    (Returned /\ HasReference) =>
        LET ox == ExpectedOffset(input.reference.size[1], Width)
            oy == ExpectedOffset(input.reference.size[2], Height)
        IN  /\ \A px \in Pixels :
                  OutputAt(1, px) =
                      applyPostProcessing(
                          applyMetric(PrimaryAt(1, px),
                                      ReferenceAt(1, px[1] + ox, px[2] + oy),
                                      input.metric),
                          input.postProcessing)
            /\ (input.image.size = <<4, 4>> /\ input.reference.size = <<2, 2>>)
                  => <<ox, oy>> = <<-1, -1>>
            /\ (input.image.size = <<2, 2>> /\ input.reference.size = <<4, 4>>)
                  => <<ox, oy>> = <<1, 1>>

\* a 4x4 primary over a 2x2 reference: pixel (1,1) is combined with the
\* reference's (0,0), pixel (0,0) with 0
C7_Witness ==
    /\ Returned /\ HasReference
    /\ input.image.size = <<4, 4>> /\ input.reference.size = <<2, 2>>
    /\ input.metric = "Error"
    /\ ReferenceAt(1, 0, 0) # Num(0)
    /\ ReferenceAt(1, 1, 1) # Num(0)
    /\ OutputAt(1, <<1, 1>>) = Sub(PrimaryAt(1, <<1, 1>>), ReferenceAt(1, 0, 0))
    /\ OutputAt(1, <<0, 0>>) = PrimaryAt(1, <<0, 0>>)

-----------------------------------------------------------------------------
(* The statistics cache. mMeanValues is a std::map from key to handle,      *)
(* modelled as the set of its nodes [key, handle]. A handle names a Lazy:   *)
(* [creator, key, gen] is the gen-th Lazy made for the key, by the thread   *)
(* creator. lazies maps each Lazy ever made to what it captured and to the  *)
(* number of computations scheduled for it on mMeanValueThreadPool.         *)

\* mMeanValues.find(key): the nodes found
mapFind(nodes, key) == {n \in nodes : n.key = key}

\* an insert that drops the other entries
mapInsertEvicting(nodes, key, handle) == {[key |-> key, handle |-> handle]}

\* mMeanValues.insert(make_pair(key, handle)): no effect if the key is present
mapInsert(nodes, key, handle) ==
    IF mapFind(nodes, key) # {} THEN nodes
    ELSE nodes \cup {[key |-> key, handle |-> handle]}

\* mMeanValues.at(key)
mapAt(nodes, key) == (CHOOSE n \in mapFind(nodes, key) : TRUE).handle

\* the Lazy made by make_shared at line 548, with the values captured at
\* 540-546 (the two images as their ids)
newLazy(c) ==
    [captured |-> [c EXCEPT !.image = c.image.id, !.reference = c.reference.id],
     scheduled |-> 0]

\* the handle of the next Lazy thread t makes for the key
newHandle(lz, t, key) ==
    [creator |-> t, key |-> key,
     gen |-> Cardinality({h \in DOMAIN lz : h.key = key}) + 1]

\* Lazy::computeAsync: schedules the computation unless one was scheduled
computeAsync(lz, handle) ==
    IF lz[handle].scheduled = 0
    THEN [lz EXCEPT ![handle].scheduled = 1]
    ELSE lz

\* the images loaded in the session
CanvasGroups == {"rgba", "aux"}
ImageA ==
    MkImage(1, <<2, 1>>,
            [g \in CanvasGroups |->
                IF g = "rgba" THEN << <<"R">>, <<"A">> >> ELSE << <<"L">> >>], 1)
ImageB ==
    MkImage(2, <<2, 2>>,
            [g \in CanvasGroups |->
                IF g = "rgba" THEN << <<"R">> >> ELSE << <<"L">> >>], 2)

\* the image a shared_ptr<Image> of the canvas points to
LoadedImage(id) ==
    IF id = 1 THEN ImageA ELSE IF id = 2 THEN ImageB ELSE NoImage

\* the settings canvasStatistics reads
Settings ==
    [image |-> LoadedImage(mImage), reference |-> LoadedImage(mReference),
     group |-> mRequestedChannelGroup,
     metric |-> mMetric, postProcessing |-> mPostProcessing,
     isCropped |-> mIsCropped, cropMin |-> mCropMin, cropMax |-> mCropMax]

\* at most MaxEntries Lazy objects are made in a run
MaxEntries == 2

\* the history of first requests, extended by a request for key that got handle
Remember(key, handle) ==
    IF key \in DOMAIN requested THEN requested ELSE requested @@ (key :> handle)

\* canvasStatistics called on the GUI thread (thread 0), start to end
canvasStatistics ==
    /\ pc = "canvas"
    /\ IF mImage = 0
       THEN /\ lastRequest' = [NoRequest EXCEPT !.returned = TRUE]
            /\ UNCHANGED <<mMeanValues, lazies, requested>>
       ELSE LET key == statisticsKey(Settings)
            IN  IF mapFind(mMeanValues, key) # {}
                THEN LET found == (CHOOSE n \in mapFind(mMeanValues, key) : TRUE).handle
                     IN  /\ lastRequest' = [returned |-> TRUE, key |-> key,
                                            handle |-> found,
                                            seenBefore |-> key \in DOMAIN requested,
                                            scheduledNow |-> FALSE]
                         /\ requested' = Remember(key, found)
                         /\ UNCHANGED <<mMeanValues, lazies>>
                ELSE LET h == newHandle(lazies, 0, key)
                         made == lazies @@ (h :> newLazy(Settings))
                         nodes == mapInsert(mMeanValues, key, h)
                         val == mapAt(nodes, key)
                     IN  /\ Cardinality(DOMAIN lazies) < MaxEntries
                         /\ mMeanValues' = nodes
                         /\ lazies' = computeAsync(made, val)
                         /\ lastRequest' = [returned |-> TRUE, key |-> key,
                                            handle |-> val,
                                            seenBefore |-> key \in DOMAIN requested,
                                            scheduledNow |->
                                                computeAsync(made, val) # made]
                         /\ requested' = Remember(key, val)
    /\ UNCHANGED <<canvasVars, threads, callVars>>

CanvasMetrics == {"Error", "AbsoluteError"}
CanvasPostProcessings == {"Identity", "Square"}
\* crop settings the user can make: none, or a rectangle dragged right to left
CanvasCrops ==
    {[isCropped |-> FALSE, cropMin |-> <<0, 0>>, cropMax |-> <<0, 0>>],
     [isCropped |-> TRUE, cropMin |-> <<2, 0>>, cropMax |-> <<-1, 1>>]}

Changed(v) == /\ lastRequest' = NoRequest
              /\ UNCHANGED <<mMeanValues, lazies, requested, threads, callVars>>

setImage ==
    /\ pc = "canvas"
    /\ mImage' \in {0, ImageA.id} \ {mImage}
    /\ Changed(mImage)
    /\ UNCHANGED <<mReference, mRequestedChannelGroup, mMetric, mPostProcessing,
                   mIsCropped, mCropMin, mCropMax>>

setReference ==
    /\ pc = "canvas"
    /\ mReference' \in {0, ImageB.id} \ {mReference}
    /\ Changed(mReference)
    /\ UNCHANGED <<mImage, mRequestedChannelGroup, mMetric, mPostProcessing,
                   mIsCropped, mCropMin, mCropMax>>

setRequestedChannelGroup ==
    /\ pc = "canvas"
    /\ mRequestedChannelGroup' \in CanvasGroups \ {mRequestedChannelGroup}
    /\ Changed(mRequestedChannelGroup)
    /\ UNCHANGED <<mImage, mReference, mMetric, mPostProcessing,
                   mIsCropped, mCropMin, mCropMax>>

setMetric ==
    /\ pc = "canvas"
    /\ mMetric' \in CanvasMetrics \ {mMetric}
    /\ Changed(mMetric)
    /\ UNCHANGED <<mImage, mReference, mRequestedChannelGroup, mPostProcessing,
                   mIsCropped, mCropMin, mCropMax>>

setPostProcessing ==
    /\ pc = "canvas"
    /\ mPostProcessing' \in CanvasPostProcessings \ {mPostProcessing}
    /\ Changed(mPostProcessing)
    /\ UNCHANGED <<mImage, mReference, mRequestedChannelGroup, mMetric,
                   mIsCropped, mCropMin, mCropMax>>

setCrop ==
    /\ pc = "canvas"
    /\ \E c \in CanvasCrops :
          /\ c.isCropped # mIsCropped
          /\ mIsCropped' = c.isCropped
          /\ mCropMin' = c.cropMin
          /\ mCropMax' = c.cropMax
    /\ Changed(mIsCropped)
    /\ UNCHANGED <<mImage, mReference, mRequestedChannelGroup, mMetric,
                   mPostProcessing>>

\* the canvas after construction
Init ==
    /\ mImage = 0
    /\ mReference = 0
    /\ mRequestedChannelGroup = "rgba"
    /\ mMetric = "Error"
    /\ mPostProcessing = "Identity"
    /\ mIsCropped = FALSE
    /\ mCropMin = <<0, 0>>
    /\ mCropMax = <<0, 0>>
    /\ IdleCache
    /\ pc = "canvas"
    /\ input = <<>>
    /\ output = <<>>
    /\ pool = <<>>

Next ==
    \/ canvasStatistics
    \/ setImage
    \/ setReference
    \/ setRequestedChannelGroup
    \/ setMetric
    \/ setPostProcessing
    \/ setCrop

Spec == Init /\ [][Next]_vars

\* the computations ever scheduled for the key
ScheduledFor(key) == {h \in DOMAIN lazies : h.key = key /\ lazies[h].scheduled > 0}

\* C1: whatever requests and changes of the settings came before, a request
\* whose key was requested earlier returns the handle the first request for
\* that key returned and schedules nothing; at most one computation is ever
\* scheduled for a key; the entry a first request made is still in the map,
\* with the same handle.
C1_OneEntryPerKey ==
    /\ (lastRequest.returned /\ lastRequest.seenBefore) =>
          /\ lastRequest.handle = requested[lastRequest.key]
          /\ ~lastRequest.scheduledNow
    /\ \A key \in DOMAIN requested :
          /\ Cardinality(ScheduledFor(key)) <= 1
          /\ mapFind(mMeanValues, key) = {[key |-> key, handle |-> requested[key]]}

\* a key requested a second time, after the settings were changed and another
\* key was cached in between
C1_Witness ==
    /\ lastRequest.returned /\ lastRequest.seenBefore
    /\ Cardinality(mMeanValues) = 2
    /\ lastRequest.handle.gen = 1
    /\ ScheduledFor(lastRequest.key) = {lastRequest.handle}
    /\ mReference # 0 /\ mIsCropped

-----------------------------------------------------------------------------
(* The key of two requests. The images here have channels whose names hold  *)
(* a ',' or a '-'.                                                          *)

KeyImage1 ==
    MkImage(1, <<1, 1>>,
            [g \in CanvasGroups |->
                IF g = "rgba" THEN << <<"R">> >>
                ELSE << <<"R", "-", "2", "-", "0">> >>], 1)
KeyImage2 ==
    MkImage(2, <<1, 1>>,
            [g \in CanvasGroups |->
                IF g = "rgba" THEN << <<"a">>, <<"b">> >>
                ELSE << <<"a", ",", "b">> >>], 1)

KeyImage(id) == IF id = 1 THEN KeyImage1 ELSE IF id = 2 THEN KeyImage2 ELSE NoImage

KeySettings ==
    [image : {1, 2}, reference : {0, 1, 2}, group : CanvasGroups,
     metric : CanvasMetrics, postProcessing : CanvasPostProcessings,
     isCropped : BOOLEAN, cropMin : {<<0, 1>>, <<-1, 12>>}, cropMax : {<<3, -2>>}]

\* the settings with the images resolved
Resolved(c) == [c EXCEPT !.image = KeyImage(c.image), !.reference = KeyImage(c.reference)]

InitKey ==
    /\ IdleCanvas /\ IdleCache
    /\ pc = "statisticsKey"
    /\ input \in [a : KeySettings, b : KeySettings]
    /\ output = <<>>
    /\ pool = <<>>

CallStatisticsKey ==
    /\ pc = "statisticsKey"
    /\ output' = <<statisticsKey(Resolved(input.a)), statisticsKey(Resolved(input.b))>>
    /\ pc' = "returned"
    /\ UNCHANGED <<input, pool, canvasVars, cacheVars>>

NextKey == CallStatisticsKey

SpecKey == InitKey /\ [][NextKey]_vars

\* the two requests agree in every parameter the statistics depend on
SameParameters(a, b) ==
    /\ a.image = b.image
    /\ channelsInGroup(KeyImage(a.image), a.group)
          = channelsInGroup(KeyImage(b.image), b.group)
    /\ a.reference = b.reference
    /\ a.reference # 0 => a.metric = b.metric
    /\ a.postProcessing = b.postProcessing
    /\ a.isCropped = b.isCropped
    /\ a.isCropped => (a.cropMin = b.cropMin /\ a.cropMax = b.cropMax)

\* C3: two requests with the same key have the same primary image id, channel
\* name list, reference presence and id, metric (with a reference),
\* post-processing, crop flag and (when cropped) crop corners, whatever
\* characters the channel names hold.
C3_KeyDeterminesParameters ==
    (Returned /\ output[1] = output[2]) => SameParameters(input.a, input.b)

\* a name is plain if it holds neither ',' nor '-'
PlainNames(c) ==
    \A i \in 1..Len(channelsInGroup(KeyImage(c.image), c.group)) :
        LET name == channelsInGroup(KeyImage(c.image), c.group)[i]
        IN  \A k \in 1..Len(name) : name[k] \notin {",", "-"}

\* among requests whose channel names are plain the key does determine the
\* parameters
KeyDeterminesParametersOfPlainNames ==
    (Returned /\ output[1] = output[2] /\ PlainNames(input.a) /\ PlainNames(input.b))
        => SameParameters(input.a, input.b)

-----------------------------------------------------------------------------
(* canvasStatistics called by NumThreads threads at once, with the settings *)
(* left alone. The function takes no lock, so its steps interleave: the     *)
(* lookup (535-538), the insert (548-558), at (560) and computeAsync (561). *)
(* The insert of an unsynchronised std::map is itself two steps, the search *)
(* for the key's place and the linking of the new node; a link that follows *)
(* a search made before another thread linked its node is a data race, and  *)
(* leaves either both nodes in the tree or the new node in the other's      *)
(* place.                                                                   *)

NumThreads == 2
Threads == 1..NumThreads

InitConcurrent ==
    /\ mImage = ImageA.id
    /\ mReference \in {0, ImageB.id}
    /\ mRequestedChannelGroup = "rgba"
    /\ mMetric = "Error"
    /\ mPostProcessing = "Identity"
    /\ mIsCropped \in BOOLEAN
    /\ mCropMin = <<0, 0>>
    /\ mCropMax = <<1, 1>>
    /\ mMeanValues = {}
    /\ lazies = <<>>
    /\ requested = <<>>
    /\ lastRequest = NoRequest
    /\ threads = [t \in Threads |->
                    [pc |-> "find", sawKey |-> FALSE, made |-> NullHandle,
                     val |-> NullHandle]]
    /\ pc = "concurrent"
    /\ input = <<>>
    /\ output = <<>>
    /\ pool = <<>>

ThreadStep(t, next) ==
    /\ threads' = [threads EXCEPT ![t] = next]
    /\ UNCHANGED <<canvasVars, requested, lastRequest, callVars>>

\* lines 535-538: the lookup, and the return of the entry found
threadFind(t) ==
    /\ threads[t].pc = "find"
    /\ LET hits == mapFind(mMeanValues, statisticsKey(Settings))
       IN  IF hits # {}
           THEN \E n \in hits :
                   ThreadStep(t, [threads[t] EXCEPT !.pc = "done", !.val = n.handle])
           ELSE ThreadStep(t, [threads[t] EXCEPT !.pc = "make"])
    /\ UNCHANGED <<mMeanValues, lazies>>

\* lines 540-558: the captures and make_shared
threadMake(t) ==
    /\ threads[t].pc = "make"
    /\ LET h == newHandle(lazies, t, statisticsKey(Settings))
       IN  /\ lazies' = lazies @@ (h :> newLazy(Settings))
           /\ ThreadStep(t, [threads[t] EXCEPT !.pc = "insertSearch", !.made = h])
    /\ UNCHANGED mMeanValues

\* line 548, insert: the search for the key
threadInsertSearch(t) ==
    /\ threads[t].pc = "insertSearch"
    /\ ThreadStep(t, [threads[t] EXCEPT
                        !.pc = "insertLink",
                        !.sawKey = mapFind(mMeanValues, statisticsKey(Settings)) # {}])
    /\ UNCHANGED <<mMeanValues, lazies>>

\* line 548, insert: the new node linked in, unless the search saw the key
threadInsertLink(t) ==
    /\ threads[t].pc = "insertLink"
    /\ LET key == statisticsKey(Settings)
           node == [key |-> key, handle |-> threads[t].made]
       IN  IF threads[t].sawKey
           THEN UNCHANGED mMeanValues
           ELSE \/ mMeanValues' = mMeanValues \cup {node}
                \/ /\ mapFind(mMeanValues, key) # {}
                   /\ mMeanValues' = (mMeanValues \ mapFind(mMeanValues, key)) \cup {node}
    /\ ThreadStep(t, [threads[t] EXCEPT !.pc = "at"])
    /\ UNCHANGED lazies

\* line 560: val = mMeanValues.at(key)
threadAt(t) ==
    /\ threads[t].pc = "at"
    /\ \E n \in mapFind(mMeanValues, statisticsKey(Settings)) :
          ThreadStep(t, [threads[t] EXCEPT !.pc = "computeAsync", !.val = n.handle])
    /\ UNCHANGED <<mMeanValues, lazies>>

\* lines 561-562: val->computeAsync(); return val
threadComputeAsync(t) ==
    /\ threads[t].pc = "computeAsync"
    /\ lazies' = computeAsync(lazies, threads[t].val)
    /\ ThreadStep(t, [threads[t] EXCEPT !.pc = "done"])
    /\ UNCHANGED mMeanValues

NextConcurrent ==
    \E t \in Threads :
        \/ threadFind(t)
        \/ threadMake(t)
        \/ threadInsertSearch(t)
        \/ threadInsertLink(t)
        \/ threadAt(t)
        \/ threadComputeAsync(t)

SpecConcurrent == InitConcurrent /\ [][NextConcurrent]_vars

\* C2: when all the concurrent callers have returned, exactly one computation
\* has been scheduled for the key and all of them hold the same handle.
C2_OneComputationAmongThreads ==
    (\A t \in Threads : threads[t].pc = "done") =>
        /\ Cardinality(ScheduledFor(statisticsKey(Settings))) = 1
        /\ \A t, u \in Threads : threads[t].val = threads[u].val

-----------------------------------------------------------------------------
(* computeCanvasStatistics. The function is run in steps: its sequential    *)
(* part up to the first parallelForNoWait, the tasks of its local           *)
(* ThreadPool, and its end. While it runs, output holds the result under    *)
(* construction and the matrix indices; the composite, the crop rectangle   *)
(* and the alpha pointer are functions of the arguments.                    *)
(*                                                                          *)
(* log and exp are not rational: symmetricLog is modelled by the identity   *)
(* on the finite values (like log(val + addition) - smallest it is strictly *)
(* increasing, odd and 0 at 0), so a sample's bin is its linear position    *)
(* between minimum and maximum. Which cells are incremented, by what weight *)
(* and in which order is as in the code.                                    *)

NUM_BINS == 400
NthLargest == 10
SpikeFloor == Rat(1, 10)
SpikeScale == Rat(13, 10)

\* all_of(flattened, name == "A"), line 673
allAlpha(flattened) == \A i \in 1..Len(flattened) : flattened[i].name = AlphaName

\* the position in flattened of the channel the loop of lines 674-684 stops
\* at, 0 if it stops at none
firstAlpha(flattened) ==
    IF \E i \in 1..Len(flattened) : flattened[i].name = AlphaName
    THEN CHOOSE i \in 1..Len(flattened) :
            /\ flattened[i].name = AlphaName
            /\ \A k \in 1..(i - 1) : flattened[k].name # AlphaName
    ELSE 0

\* alphaChannel = &channel (line 676): the position the pointer points to,
\* 0 for nullptr. The swap of line 679 exchanges the contents of two
\* elements; the pointer keeps pointing at the same element.
alphaPointer(flattened) ==
    IF allAlpha(flattened) THEN 0 ELSE firstAlpha(flattened)

\* swap(channel, flattened.back()), lines 678-680
swapWithBack(flattened, k) ==
    IF k = 0 \/ k = Len(flattened) THEN flattened
    ELSE [flattened EXCEPT ![k] = flattened[Len(flattened)],
                           ![Len(flattened)] = flattened[k]]

\* flattened after lines 665-686
reordered(flattened) == swapWithBack(flattened, alphaPointer(flattened))

\* int nChannels, line 686
nChannelsOf(flattened) ==
    IF alphaPointer(flattened) # 0 THEN Len(flattened) - 1 ELSE Len(flattened)

\* the samples the loop of lines 706-721 visits, in its order
cropSamples(flattened, nChannels, rect, stride) ==
    LET w == rect[2][1] - rect[1][1]
        h == rect[2][2] - rect[1][2]
    IN  [k \in 1..(nChannels * w * h) |->
           LET i == (k - 1) \div (w * h)
               r == (k - 1) % (w * h)
               x == rect[1][1] + (r % w)
               y == rect[1][2] + (r \div w)
           IN  eval(flattened[i + 1], x + y * stride)]

RECURSIVE meanLoopCountingNaN(_, _, _)
\* the loop with a NaN sample counted in pixelCount
meanLoopCountingNaN(samples, k, acc) ==
    IF k > Len(samples) THEN acc
    ELSE LET v == samples[k]
         IN  meanLoopCountingNaN(samples, k + 1,
                      IF IsNaN(v) THEN [acc EXCEPT !.pixelCount = @ + 1]
                      ELSE [mean |-> Add(acc.mean, v),
                            maximum |-> StdMax(acc.maximum, v),
                            minimum |-> StdMin(acc.minimum, v),
                            pixelCount |-> acc.pixelCount + 1])

RECURSIVE meanLoop(_, _, _)
\* lines 712-718 for the samples from the k-th on
meanLoop(samples, k, acc) ==
    IF k > Len(samples) THEN acc
    ELSE LET v == samples[k]
         IN  meanLoop(samples, k + 1,
                      IF IsNaN(v) THEN acc
                      ELSE [mean |-> Add(acc.mean, v),
                            maximum |-> StdMax(acc.maximum, v),
                            minimum |-> StdMin(acc.minimum, v),
                            pixelCount |-> acc.pixelCount + 1])

\* mean, maximum, minimum and pixelCount after the loop of lines 704-721
accumulated(flattened, nChannels, rect, stride) ==
    meanLoop(cropSamples(flattened, nChannels, rect, stride), 1,
             [mean |-> Num(0), maximum |-> Inf(-1), minimum |-> Inf(1),
              pixelCount |-> 0])

\* result->mean, line 725
resultMean(nChannels, acc) ==
    IF nChannels > 0 THEN Div(acc.mean, Num(acc.pixelCount)) ELSE Num(0)

\* lines 736-741 (see the note on log above)
symmetricLog(val) == val
symmetricLogInverse(val) == val

\* clamp of an int
clamp(v, lo, hi) == Max2(lo, Min2(v, hi))

\* (int) of a float: truncation; the conversion of a NaN or an infinity is
\* undefined, undefinedCast is what the build makes of it
castToInt(v, undefinedCast) ==
    IF IsNum(v) THEN TruncDiv(v.n, v.d) ELSE undefinedCast

\* what an undefined conversion can give: INT_MIN as on x86, 0, or a large int
UndefinedCasts == {-2147483647, 0, 2147483647}

\* lines 746-748
valToBin(val, minLog, diffLog, undefinedCast) ==
    clamp(castToInt(Div(Mul(Num(NUM_BINS), Sub(symmetricLog(val), minLog)), diffLog),
                    undefinedCast),
          0, NUM_BINS - 1)

\* lines 752-754
binToVal(val, minLog, diffLog) ==
    symmetricLogInverse(Add(Div(Mul(diffLog, Num(val)), Num(NUM_BINS)), minLog))

\* ThreadPool: the number of worker threads, and the chunk a parallelFor
\* gives to each of its tasks
PoolThreads == 2
chunkOf(start, end) == ((end - start) \div PoolThreads) + 1
chunkRange(c, start, end) ==
    {j \in start..(end - 1) :
        /\ j >= start + c * chunkOf(start, end)
        /\ j < start + (c + 1) * chunkOf(start, end)}

\* the tasks parallelForNoWait enqueues at lines 765-770, one call per channel
indexTasks(nChannels) ==
    {[phase |-> "index", channel |-> i, chunk |-> c] :
        i \in 1..nChannels, c \in 0..(PoolThreads - 1)}

\* the tasks parallelFor enqueues at line 773
accumulateTasks ==
    {[phase |-> "accumulate", channel |-> 0, chunk |-> c] : c \in 0..(PoolThreads - 1)}

\* a wait that returns as soon as the queue is empty
waitUntilQueueEmpty(tasks) == \A t \in DOMAIN tasks : tasks[t] # "queued"

\* ThreadPool::waitUntilFinished returns when every task has finished
waitUntilFinished(tasks) == \A t \in DOMAIN tasks : tasks[t] = "done"

\* an element of the matrix indices (line 762) that has not been written
Unwritten == -1

\* the locals of the running computeCanvasStatistics, from its arguments
statComposite ==
    channelsFromImages(input.image, input.reference, input.group,
                       input.metric, input.postProcessing)
statFlattened == reordered(statComposite)
statAlphaChannel == alphaPointer(statComposite)
statChannels == nChannelsOf(statComposite)
statRectangle ==
    cropRectangle(input.isCropped, input.cropMin, input.cropMax, input.image.size)
statElements == count(input.image.size)
statMinLog == symmetricLog(output.result.minimum)
statDiffLog == Sub(symmetricLog(output.result.maximum), statMinLog)

\* lines 665-770: everything before pool.waitUntilFinished()
computeCanvasStatistics ==
    /\ pc = "computeCanvasStatistics"
    /\ LET acc == accumulated(statFlattened, statChannels, statRectangle,
                              input.image.size[1])
           minLog == symmetricLog(acc.minimum)
           diffLog == Sub(symmetricLog(acc.maximum), minLog)
       IN  \E undefinedCast \in UndefinedCasts :
              output' =
                [result |->
                   [mean |-> resultMean(statChannels, acc),
                    maximum |-> acc.maximum,
                    minimum |-> acc.minimum,
                    histogram |-> [i \in 1..statChannels |-> <<>>],
                    rest |-> Num(0),
                    histogramZero |-> valToBin(Num(0), minLog, diffLog, undefinedCast)],
                 indices |-> [i \in 1..statChannels |->
                                [j \in 0..(statElements - 1) |-> Unwritten]],
                 readUnwritten |-> FALSE]
    /\ IF statChannels = 0
       THEN pc' = "returned" /\ pool' = pool
       ELSE pc' = "indexPhase" /\ pool' = [t \in indexTasks(statChannels) |-> "queued"]
    /\ UNCHANGED <<input, canvasVars, cacheVars>>

\* a worker thread of the pool takes a task from the queue
poolStartTask(t) ==
    /\ pc \in {"indexPhase", "accumulatePhase"}
    /\ pool[t] = "queued"
    /\ Cardinality({u \in DOMAIN pool : pool[u] = "running"}) < PoolThreads
    /\ pool' = [pool EXCEPT ![t] = "running"]
    /\ UNCHANGED <<pc, input, output, canvasVars, cacheVars>>

\* lines 767-769 for the indices of one chunk
indexTask(t) ==
    /\ pc \in {"indexPhase", "accumulatePhase"}
    /\ t.phase = "index"
    /\ pool[t] = "running"
    /\ \E undefinedCast \in UndefinedCasts :
          output' = [output EXCEPT !.indices[t.channel] =
                       [j \in DOMAIN @ |->
                          IF j \in chunkRange(t.chunk, 0, statElements)
                          THEN valToBin(eval(statFlattened[t.channel], j),
                                        statMinLog, statDiffLog, undefinedCast)
                          ELSE @[j]]]
    /\ pool' = [pool EXCEPT ![t] = "done"]
    /\ UNCHANGED <<pc, input, canvasVars, cacheVars>>

\* lines 771-773: waitUntilFinished returns and parallelFor enqueues its tasks
accumulatePhase ==
    /\ pc = "indexPhase"
    /\ waitUntilFinished(pool)
    /\ pool' = pool @@ [t \in accumulateTasks |-> "queued"]
    /\ pc' = "accumulatePhase"
    /\ UNCHANGED <<input, output, canvasVars, cacheVars>>

\* alphaChannel ? alphaChannel->eval(j) : 1, line 775
weight(flattened, alphaChannel, j) ==
    IF alphaChannel # 0 THEN eval(flattened[alphaChannel], j) ELSE Num(1)

\* histogram(bin, i) += w
addToBin(column, bin, w) ==
    IF bin \in DOMAIN column
    THEN [column EXCEPT ![bin] = Add(@, w)]
    ELSE column @@ (bin :> Add(Num(0), w))

RECURSIVE accumulateColumn(_, _, _, _, _)
\* lines 774-776 from element j on; an element of indices that was never
\* written is read as bin 0
accumulateColumn(column, indicesOfChannel, flattened, alphaChannel, j) ==
    IF j \notin DOMAIN indicesOfChannel THEN column
    ELSE accumulateColumn(
            addToBin(column,
                     IF indicesOfChannel[j] = Unwritten THEN 0 ELSE indicesOfChannel[j],
                     weight(flattened, alphaChannel, j)),
            indicesOfChannel, flattened, alphaChannel, j + 1)

\* lines 773-777 for the channels of one chunk
accumulateTask(t) ==
    /\ pc = "accumulatePhase"
    /\ t.phase = "accumulate"
    /\ pool[t] = "running"
    /\ LET mine == {i + 1 : i \in chunkRange(t.chunk, 0, statChannels)}
       IN  output' =
             [output EXCEPT
                !.result.histogram =
                   [i \in DOMAIN @ |->
                      IF i \in mine
                      THEN accumulateColumn(@[i], output.indices[i], statFlattened,
                                            statAlphaChannel, 0)
                      ELSE @[i]],
                !.readUnwritten =
                   @ \/ \E i \in mine : \E j \in DOMAIN output.indices[i] :
                           output.indices[i][j] = Unwritten]
    /\ pool' = [pool EXCEPT ![t] = "done"]
    /\ UNCHANGED <<pc, input, canvasVars, cacheVars>>

\* binToVal(i + 1) - binToVal(i), line 780
binWidth(bin, minLog, diffLog) ==
    Sub(binToVal(bin + 1, minLog, diffLog), binToVal(bin, minLog, diffLog))

\* the cells of the histogram that were incremented, as <<channel, bin>>
occupiedCells(histogram) ==
    {<<i, b>> : i \in DOMAIN histogram, b \in 0..(NUM_BINS - 1)} \cap
    UNION {{<<i, b>> : b \in DOMAIN histogram[i]} : i \in DOMAIN histogram}

\* the values temp(idx) can have after nth_element (lines 785-787): the
\* NthLargest-th largest cell; if a cell is NaN the order of the cells is
\* not defined and any cell can come to stand at idx
nthLargest(histogram, rest) ==
    LET cells == occupiedCells(histogram)
        restCount == NUM_BINS * Len(histogram) - Cardinality(cells)
        values == {histogram[c[1]][c[2]] : c \in cells}
                  \cup (IF restCount > 0 THEN {rest} ELSE {})
        above(v) == Cardinality({c \in cells : Less(v, histogram[c[1]][c[2]])})
                    + (IF Less(v, rest) THEN restCount ELSE 0)
        atLeast(v) == Cardinality({c \in cells : LessEq(v, histogram[c[1]][c[2]])})
                      + (IF LessEq(v, rest) THEN restCount ELSE 0)
    IN  IF \E v \in values : IsNaN(v) THEN values
        ELSE {v \in values : above(v) < NthLargest /\ NthLargest <= atLeast(v)}

\* lines 777-790: parallelFor returns, the histogram is turned into
\* densities and normalised, the result is returned
histogramNormalize ==
    /\ pc = "accumulatePhase"
    /\ accumulateTasks \subseteq DOMAIN pool
    /\ waitUntilFinished(pool)
    /\ LET density ==
              [i \in DOMAIN output.result.histogram |->
                 [b \in DOMAIN output.result.histogram[i] |->
                    Div(output.result.histogram[i][b],
                        binWidth(b, statMinLog, statDiffLog))]]
           restDensity ==
              Div(output.result.rest, binWidth(NUM_BINS - 1, statMinLog, statDiffLog))
       IN  \E nth \in nthLargest(density, restDensity) :
              LET scale == Mul(StdMax(nth, SpikeFloor), SpikeScale)
              IN  output' =
                    [output EXCEPT
                       !.result.histogram =
                          [i \in DOMAIN density |->
                             [b \in DOMAIN density[i] |-> Div(density[i][b], scale)]],
                       !.result.rest = Div(restDensity, scale)]
    /\ pc' = "returned"
    /\ UNCHANGED <<input, pool, canvasVars, cacheVars>>

NextStatistics ==
    \/ computeCanvasStatistics
    \/ \E t \in DOMAIN pool : poolStartTask(t)
    \/ \E t \in DOMAIN pool : indexTask(t)
    \/ accumulatePhase
    \/ \E t \in DOMAIN pool : accumulateTask(t)
    \/ histogramNormalize

-----------------------------------------------------------------------------
(* The images computeCanvasStatistics is run on: samples that are NaN,      *)
(* zero, negative and fractional, a channel that is NaN throughout.         *)

\* the sample at flat index j: the channel "R" of pattern 1 on four pixels
\* is 1, 2, 3, NaN
StatValue(seed, name, j) ==
    LET t == j + seed + 2 * (Ordinal(name) - 1)
    IN  IF seed % 3 = 0 \/ t % 4 = 0 THEN NaN
        ELSE IF seed % 3 = 1 THEN Num(t % 5)
        ELSE Rat(3 - 2 * (t % 5), 2)

StatImage(id, size, listing, seed) ==
    [id |-> id,
     size |-> size,
     groups |-> [g \in {TheGroup} |-> listing],
     data |-> [name \in Range(listing)
                 |-> [j \in 0..(count(size) - 1) |-> StatValue(seed, name, j)]]]

MaxStatSize == 2
MaxStatSeed == 3

StatSizes == (1..MaxStatSize) \X (1..MaxStatSize)

\* no channel, data only, alpha last, first and in the middle, alpha twice,
\* alpha only
StatListings ==
    { << >>,
      << <<"R">> >>,
      << <<"R">>, <<"G">> >>,
      << <<"R">>, <<"A">> >>,
      << <<"A">>, <<"R">> >>,
      << <<"R">>, <<"A">>, <<"G">> >>,
      << <<"A">>, <<"R">>, <<"A">> >>,
      << <<"A">> >> }

\* no crop; a corner pixel; the same dragged right to left; a rectangle of
\* width 0; a rectangle larger than the image
StatCrops ==
    {[isCropped |-> FALSE, cropMin |-> <<0, 0>>, cropMax |-> <<0, 0>>],
     [isCropped |-> TRUE, cropMin |-> <<0, 0>>, cropMax |-> <<1, 1>>],
     [isCropped |-> TRUE, cropMin |-> <<1, 0>>, cropMax |-> <<0, 1>>],
     [isCropped |-> TRUE, cropMin |-> <<1, 0>>, cropMax |-> <<1, 1>>],
     [isCropped |-> TRUE, cropMin |-> <<-1, -1>>,
      cropMax |-> <<MaxStatSize + 1, MaxStatSize + 1>>]}

StatInputs ==
    {[image |-> StatImage(1, size, listing, seed),
      reference |-> reference,
      group |-> TheGroup,
      metric |-> "Error",
      postProcessing |-> "Identity",
      isCropped |-> crop.isCropped,
      cropMin |-> crop.cropMin,
      cropMax |-> crop.cropMax] :
     size \in StatSizes, listing \in StatListings, seed \in 1..MaxStatSeed,
     crop \in StatCrops,
     reference \in {NoImage, StatImage(2, <<1, 1>>, << <<"R">>, <<"A">> >>, 2)}}

InitStatistics ==
    /\ IdleCanvas /\ IdleCache
    /\ pc = "computeCanvasStatistics"
    /\ input \in StatInputs
    /\ output = <<>>
    /\ pool = <<>>

SpecStatistics == InitStatistics /\ [][NextStatistics]_vars

-----------------------------------------------------------------------------
(* What the claims about computeCanvasStatistics speak of.                  *)

\* the positions in the composite of the data channels: every channel but
\* the one the alpha pointer was set to
DataPositions == (1..Len(statComposite)) \ {statAlphaChannel}

\* the positions of the channels not named "A"
NonAlphaPositions == {i \in 1..Len(statComposite) : statComposite[i].name # AlphaName}

\* the flat indices of the pixels inside the crop rectangle
CropPixels ==
    {j \in 0..(statElements - 1) :
        /\ statRectangle[1][1] <= j % input.image.size[1]
        /\ j % input.image.size[1] < statRectangle[2][1]
        /\ statRectangle[1][2] <= j \div input.image.size[1]
        /\ j \div input.image.size[1] < statRectangle[2][2]}

AllPixels == 0..(statElements - 1)

CompositeAt(i, j) == statComposite[i].data[j]

\* the <<position, pixel>> pairs of the given channels and pixels whose
\* sample is not NaN
ValidSamples(positions, pixels) ==
    {e \in positions \X pixels : ~IsNaN(CompositeAt(e[1], e[2]))}

RECURSIVE SumOf(_, _)
SumOf(S, val) ==
    IF S = {} THEN Num(0)
    ELSE LET e == CHOOSE e \in S : TRUE
         IN  Add(val[e], SumOf(S \ {e}, val))

MinOf(S, val) == CHOOSE m \in {val[e] : e \in S} : \A e \in S : LessEq(m, val[e])
MaxOf(S, val) == CHOOSE m \in {val[e] : e \in S} : \A e \in S : LessEq(val[e], m)

StatisticsOver(positions) ==
    LET V == ValidSamples(positions, CropPixels)
        val == [e \in V |-> CompositeAt(e[1], e[2])]
    IN  [valid |-> V # {},
         mean |-> Div(SumOf(V, val), Num(Cardinality(V))),
         minimum |-> IF V = {} THEN Inf(1) ELSE MinOf(V, val),
         maximum |-> IF V = {} THEN Inf(-1) ELSE MaxOf(V, val)]

\* C11 as stated: over the channels not named "A"; the mean is the sum of
\* the non-NaN samples in the crop rectangle over their number, minimum and
\* maximum are taken over the same samples, and the mean is 0 if there is
\* no such channel.
C11_MeanOverNonAlphaChannels ==
    pc = "returned" =>
       LET expected == StatisticsOver(NonAlphaPositions)
       IN  /\ NonAlphaPositions = {} => output.result.mean = Num(0)
           /\ (NonAlphaPositions # {} /\ expected.valid) =>
                 /\ output.result.mean = expected.mean
                 /\ output.result.minimum = expected.minimum
                 /\ output.result.maximum = expected.maximum

\* C11: the data channels are all channels of the composite but the alpha
\* channel found by the reordering step, so a composite that is entirely
\* alpha has its alpha channels as data. The mean is the sum of the non-NaN
\* samples of the data channels in the crop rectangle over their number,
\* minimum and maximum are taken over the same samples; a NaN sample changes
\* none of them. The mean is 0 if there is no data channel; if there are
\* data channels but no non-NaN sample, the mean is NaN (0/0), the minimum
\* +infinity and the maximum -infinity.
C11_MeanOverDataChannels ==
    pc = "returned" =>
       LET expected == StatisticsOver(DataPositions)
       IN  /\ output.result.mean =
                 (IF DataPositions = {} THEN Num(0)
                  ELSE IF expected.valid THEN expected.mean ELSE NaN)
           /\ output.result.minimum = expected.minimum
           /\ output.result.maximum = expected.maximum

\* the 2x2 image 1, 2, 3, NaN without reference and crop: mean 2, minimum 1,
\* maximum 3
C11_Witness ==
    /\ pc = "returned"
    /\ input.image.size = <<2, 2>>
    /\ Listing = << <<"R">> >>
    /\ input.reference = NoImage
    /\ ~input.isCropped
    /\ \A j \in 0..2 : input.image.data[<<"R">>][j] = Num(j + 1)
    /\ IsNaN(input.image.data[<<"R">>][3])
    /\ output.result.mean = Num(2)
    /\ output.result.minimum = Num(1)
    /\ output.result.maximum = Num(3)

\* parallelFor has returned: the histogram holds the accumulated weights and
\* has not yet been turned into densities
Accumulated ==
    /\ pc = "accumulatePhase"
    /\ accumulateTasks \subseteq DOMAIN pool
    /\ waitUntilFinished(pool)

\* the sum over all bins of histogram[bin, i]
ColumnTotal(i) ==
    SumOf(DOMAIN output.result.histogram[i], output.result.histogram[i])

\* the sample of the data channel of column i at pixel j
DataAt(i, j) == eval(statFlattened[i], j)

\* the composite's alpha sample at pixel j, 1 without an alpha channel
AlphaWeight ==
    [j \in AllPixels |->
       IF statAlphaChannel = 0 THEN Num(1) ELSE CompositeAt(statAlphaChannel, j)]

\* the weight line 775 adds for pixel j
UsedWeight == [j \in AllPixels |-> weight(statFlattened, statAlphaChannel, j)]

\* C12: before the density conversion, the bins of every data channel sum to
\* the total weight of the channel's non-NaN samples inside the crop
\* rectangle, the weight of a pixel being its alpha sample if the composite
\* has an alpha channel and 1 otherwise; a pixel outside the rectangle adds
\* nothing.
C12_HistogramTotalOverCrop ==
    Accumulated =>
       \A i \in 1..statChannels :
          ColumnTotal(i) =
             SumOf({j \in CropPixels : ~IsNaN(DataAt(i, j))}, AlphaWeight)

\* C13: a NaN sample is added to no bin: before the density conversion the
\* bins of a data channel sum to the weights added for the pixels at which
\* the channel is not NaN (1, 2, 3, NaN gives the total 3).
C13_NaNInNoBin ==
    Accumulated =>
       \A i \in 1..statChannels :
          ColumnTotal(i) =
             SumOf({j \in AllPixels : ~IsNaN(DataAt(i, j))}, UsedWeight)

\* C14: if the composite has a channel named "A" and is not entirely alpha,
\* then wherever that channel stood, after the reordering the last channel
\* is the alpha channel, the first nChannels channels are the channels not
\* named "A", and the weight added to histogram[bin, channel] for a pixel is
\* the alpha sample of the pixel.
C14_WeightIsAlphaSample ==
    (Accumulated /\ statAlphaChannel # 0) =>
       /\ statFlattened[Len(statFlattened)].name = AlphaName
       /\ \A i \in 1..statChannels : statFlattened[i].name # AlphaName
       /\ \A i \in 1..statChannels :
             ColumnTotal(i) = SumOf(AllPixels, UsedWeight)
       /\ UsedWeight = AlphaWeight

\* C15: under every scheduling of the pool, once an accumulation task is
\* enqueued every index task has finished and every element of indices has
\* been written; no accumulation task reads an element that was not written.
C15_IndexPhaseBeforeAccumulation ==
    /\ (\E t \in DOMAIN pool : t.phase = "accumulate") =>
          /\ \A t \in DOMAIN pool : t.phase = "index" => pool[t] = "done"
          /\ \A i \in DOMAIN output.indices : \A j \in DOMAIN output.indices[i] :
                output.indices[i][j] # Unwritten
    /\ pc # "computeCanvasStatistics" => ~output.readUnwritten

\* an accumulation task runs over two channels of four pixels whose index
\* tasks have all finished
C15_Witness ==
    /\ pc = "accumulatePhase"
    /\ statChannels = 2
    /\ statElements = 4
    /\ \E t \in DOMAIN pool : t.phase = "accumulate" /\ pool[t] = "running"
    /\ \A t \in indexTasks(statChannels) : pool[t] = "done"
    /\ \A i \in 1..2 : \A j \in 0..3 : output.indices[i][j] \in 0..(NUM_BINS - 1)

-----------------------------------------------------------------------------
(* getHdrImageData: the composite flattened into four interleaved floats    *)
(* per pixel; the result is a function on the flat indices 0 .. 4n - 1.     *)

\* the components written per pixel
HdrComponents == 4

\* lines 392-441
getHdrImageData(image, reference, group, metric, postProcessing, divideAlpha) ==
    IF IsNull(image) THEN <<>>
    ELSE
      LET channels == channelsFromImages(image, reference, group, metric, postProcessing)
          numPixels == count(image.size)
          nChannelsToSave == Min2(Len(channels), HdrComponents)
          \* lines 409-417: result.resize(4 * numPixels, 0) and the copy
          copied == [k \in 0..(HdrComponents * numPixels - 1) |->
                       IF k % HdrComponents < nChannelsToSave
                       THEN eval(channels[(k % HdrComponents) + 1], k \div HdrComponents)
                       ELSE Num(0)]
          \* lines 420-424
          padded == [k \in DOMAIN copied |->
                       IF nChannelsToSave < HdrComponents
                          /\ k % HdrComponents = HdrComponents - 1
                       THEN Num(1) ELSE copied[k]]
          \* lines 427-438
          divided == [k \in DOMAIN padded |->
                        IF divideAlpha
                           /\ k % HdrComponents < Min2(nChannelsToSave, HdrComponents - 1)
                        THEN LET alpha == padded[(k \div HdrComponents) * HdrComponents
                                                 + HdrComponents - 1]
                             IN  IF alpha = Num(0) THEN Num(0) ELSE Div(padded[k], alpha)
                        ELSE padded[k]]
      IN  IF Len(channels) = 0 THEN <<>> ELSE divided

\* channel groups of one to five channels, with the alpha channel last,
\* first, in the middle, beyond the fourth place, or absent
HdrListings ==
    { << <<"R">> >>,
      << <<"R">>, <<"A">> >>,
      << <<"A">>, <<"R">> >>,
      << <<"R">>, <<"G">>, <<"L">> >>,
      << <<"R">>, <<"A">>, <<"G">> >>,
      << <<"R">>, <<"G">>, <<"L">>, <<"A">> >>,
      << <<"A">>, <<"R">>, <<"G">>, <<"L">> >>,
      << <<"R">>, <<"G">>, <<"L">>, <<"b">> >>,
      << <<"R">>, <<"G">>, <<"L">>, <<"b">>, <<"A">> >> }

InitHdr ==
    /\ IdleCanvas /\ IdleCache
    /\ pc = "getHdrImageData"
    /\ input \in
         [image : {MkImage(1, size, [g \in {TheGroup} |-> listing], seed) :
                     size \in Sizes, listing \in HdrListings, seed \in 1..MaxSeed},
          reference : {NoImage},
          group : {TheGroup},
          metric : {"Error"},
          postProcessing : {"Identity"},
          divideAlpha : BOOLEAN]
    /\ output = <<>>
    /\ pool = <<>>

CallGetHdrImageData ==
    /\ pc = "getHdrImageData"
    /\ output' = getHdrImageData(input.image, input.reference, input.group,
                                 input.metric, input.postProcessing, input.divideAlpha)
    /\ pc' = "returned"
    /\ UNCHANGED <<input, pool, canvasVars, cacheVars>>

NextHdr == CallGetHdrImageData

SpecHdr == InitHdr /\ [][NextHdr]_vars

\* the position in the listing of the first channel whose result name is "A",
\* 0 if there is none
HdrAlphaPosition == firstAlpha(statComposite)

\* C16: the buffer holds exactly 4 * pixelCount floats; for every pixel the
\* 4th component is 1 if the composite has no channel named "A" and is the
\* composite's alpha sample of the pixel if it has one, whatever the number
\* of channels and the position of the alpha channel.
C16_FourthComponentIsAlpha ==
    (pc = "returned" /\ ~input.divideAlpha) =>
       /\ DOMAIN output = 0..(HdrComponents * statElements - 1)
       /\ \A j \in AllPixels :
             output[HdrComponents * j + HdrComponents - 1] =
                (IF HdrAlphaPosition = 0 THEN Num(1)
                 ELSE CompositeAt(HdrAlphaPosition, j))

-----------------------------------------------------------------------------
(* applyTonemap. A Vector3f is a sequence of three floats. Two more kinds   *)
(* of float stand for values that are not rational: [k |-> "srgb", n, d] is *)
(* toSRGB(n/d) for 0.0031308 < n/d, n/d # 1, and [k |-> "sqrt", n, d] is    *)
(* the square root of n/d where it is not rational. Both functions are      *)
(* increasing and map 1 to 1, so such a value exceeds 1 iff n/d does. They  *)
(* are only ever clamped, never used in arithmetic.                         *)

ETonemap == {"SRGB", "Gamma", "FalseColor", "PositiveNegative", "Complex",
             "Vector", "FalseColorPPG"}

\* a value of an enumeration type that is none of its enumerators
UnknownVariant == "Unknown"

IsSymbolic(v) == v.k \in {"srgb", "sqrt"}

IsSquare(n) == \E r \in 0..n : r * r = n
IntSqrt(n) == CHOOSE r \in 0..n : r * r = n

\* toSRGB(linear) with the default gamma 2.4
toSRGB(linear) ==
    IF IsNaN(linear) THEN NaN
    ELSE IF IsInf(linear) THEN linear
    ELSE IF LessEq(linear, Rat(31308, 10000000)) THEN Mul(Rat(1292, 100), linear)
    ELSE IF linear = Num(1) THEN Num(1)
    ELSE [k |-> "srgb", n |-> linear.n, d |-> linear.d]

\* pow(x, 1 / gamma) for gamma = 1 and gamma = 2
powInverse(x, gamma) ==
    IF gamma = 1 \/ IsNaN(x) THEN x
    ELSE IF IsInf(x) THEN Inf(1)
    ELSE IF x.n < 0 THEN NaN
    ELSE IF IsSquare(x.n) /\ IsSquare(x.d) THEN Rat(IntSqrt(x.n), IntSqrt(x.d))
    ELSE [k |-> "sqrt", n |-> x.n, d |-> x.d]

\* clamp of a float
clampFloat(v, lo, hi) == StdMax(StdMin(v, hi), lo)

\* one component of result.cwiseMax(Zero).cwiseMin(Ones), line 357
clampUnit(v) ==
    IF IsSymbolic(v)
    THEN (IF Less(Num(1), Rat(v.n, v.d)) THEN Num(1) ELSE v)
    ELSE StdMin(StdMax(v, Num(0)), Num(1))

\* Vector3f::mean
mean3(value) == Div(Add(Add(value[1], value[2]), value[3]), Num(3))

\* the RGB stops of falseColorData; the fourth float of each stop is 1
falseColorData ==
    << <<Rat(0, 255), Rat(0, 255), Rat(0, 255)>>,
       <<Rat(80, 255), Rat(18, 255), Rat(123, 255)>>,
       <<Rat(181, 255), Rat(54, 255), Rat(121, 255)>>,
       <<Rat(251, 255), Rat(136, 255), Rat(97, 255)>>,
       <<Rat(251, 255), Rat(252, 255), Rat(191, 255)>> >>

\* colormap::turbo(), the ramp applyTonemap reads
turbo == falseColorData

\* float r and the stops ri and start1 / 4 of the falseColor lambda,
\* lines 293-299; r is finite here
falseColorPosition(linear) ==
    clampFloat(Mul(linear, Num(Len(turbo))), Num(0), Num(Len(turbo) - 1))
falseColorStops(linear) ==
    LET ri == castToInt(falseColorPosition(linear), 0)
    IN  <<ri, IF ri = Len(turbo) - 1 THEN ri ELSE ri + 1>>

\* the falseColor lambda of lines 290-304
falseColor(linear) ==
    LET r == falseColorPosition(linear)
        stops == falseColorStops(linear)
        alpha == Sub(r, Num(stops[1]))
        v0 == turbo[stops[1] + 1]
        v1 == turbo[stops[2] + 1]
    IN  [c \in 1..3 |-> Add(Mul(alpha, v1[c]), Mul(Sub(Num(1), alpha), v0[c]))]

\* the powers of two 2^-MaxExponent .. 2^MaxExponent
MaxExponent == 6
RECURSIVE Pow2(_)
Pow2(e) == IF e = 0 THEN Num(1)
           ELSE IF e > 0 THEN Mul(Num(2), Pow2(e - 1))
           ELSE Div(Pow2(e + 1), Num(2))

\* log2 of a power of two
log2(x) == Num(CHOOSE e \in -MaxExponent..MaxExponent : Pow2(e) = x)

\* v of line 308
falseColorLinear(value) ==
    Add(Div(log2(Add(mean3(value), Rat(1, 32))), Num(10)), Rat(1, 2))

\* clamp(pow(value[0], 1.f / 2.2f), 0, 1) of lines 332 and 350, for the
\* arguments at which it is rational
grayScale(x) ==
    CASE IsNum(x) /\ x.n = 0 -> Num(0)
      [] IsNum(x) /\ LessEq(Num(1), x) -> Num(1)
      [] IsInf(x) /\ x.n > 0 -> Num(1)

\* the falseColor lambda of FalseColorPPG, lines 330-346, after its clamp
falseColorPPG(v) ==
    IF Less(v, Rat(1, 4))
    THEN <<Num(0), Mul(Num(4), v), Num(1)>>
    ELSE IF Less(v, Rat(1, 2))
    THEN <<Num(0), Num(1), Add(Num(1), Mul(Num(4), Sub(Rat(1, 4), v)))>>
    ELSE IF Less(v, Rat(3, 4))
    THEN <<Mul(Num(4), Sub(v, Rat(1, 2))), Num(1), Num(0)>>
    ELSE <<Num(1), Add(Num(1), Mul(Num(4), Sub(Rat(3, 4), v))), Num(0)>>

\* value.norm() == 0, line 321
normIsZero(value) == \A c \in 1..3 : value[c] = Num(0)

\* ImageCanvas::applyTonemap. The case Vector (lines 320-328) ends without a
\* break unless the norm is 0: control falls through into the case
\* FalseColorPPG, which assigns result again.
applyTonemap(value, gamma, tonemap) ==
    IF tonemap \notin ETonemap THEN Throw
    ELSE
      LET result ==
            CASE tonemap = "SRGB" -> [c \in 1..3 |-> toSRGB(value[c])]
              [] tonemap = "Gamma" -> [c \in 1..3 |-> powInverse(value[c], gamma)]
              [] tonemap = "FalseColor" -> falseColor(falseColorLinear(value))
              [] tonemap = "PositiveNegative" ->
                    <<Mul(Num(-2), mean3([c \in 1..3 |-> StdMin(value[c], Num(0))])),
                      Mul(Num(2), mean3([c \in 1..3 |-> StdMax(value[c], Num(0))])),
                      Num(0)>>
              [] tonemap = "Complex" -> <<Num(0), Num(0), Num(0)>>
              [] tonemap = "Vector" /\ normIsZero(value) -> value
              [] tonemap = "Vector" /\ ~normIsZero(value) ->
                    falseColorPPG(grayScale(value[1]))
              [] tonemap = "FalseColorPPG" -> falseColorPPG(grayScale(value[1]))
      IN  [c \in 1..3 |-> clampUnit(result[c])]

\* the components of the vectors: -1 .. MaxComponent and 1/4
MaxComponent == 4
Components == {Num(i) : i \in -1..MaxComponent} \cup {Rat(1, 4)}
Vectors == {<<x, y, z>> : x \in Components, y \in Components, z \in Components}
Gammas == {1, 2}

\* the grey vectors whose mean + 1/32 is a power of two
PowerOfTwoVectors ==
    {[c \in 1..3 |-> Sub(Pow2(e), Rat(1, 32))] : e \in -MaxExponent..MaxExponent}

\* the arguments applyTonemap is called with: any vector for the variants
\* that are rational on it, a first component of 0 or at least 1 where
\* pow(value[0], 1 / 2.2) is taken, the grey vectors for FalseColor
TonemapInputs ==
    [value : Vectors, gamma : Gammas,
     tonemap : {"SRGB", "Gamma", "PositiveNegative", "Complex", UnknownVariant}]
    \cup [value : {v \in Vectors : v[1] = Num(0) \/ LessEq(Num(1), v[1])},
          gamma : Gammas, tonemap : {"Vector", "FalseColorPPG"}]
    \cup [value : PowerOfTwoVectors, gamma : Gammas, tonemap : {"FalseColor"}]

InitTonemap ==
    /\ IdleCanvas /\ IdleCache
    /\ pc = "applyTonemap"
    /\ input \in TonemapInputs
    /\ output = <<>>
    /\ pool = <<>>

CallApplyTonemap ==
    /\ pc = "applyTonemap"
    /\ output' = applyTonemap(input.value, input.gamma, input.tonemap)
    /\ pc' = "returned"
    /\ UNCHANGED <<input, pool, canvasVars, cacheVars>>

NextTonemap == CallApplyTonemap

SpecTonemap == InitTonemap /\ [][NextTonemap]_vars

\* the squared norm of the argument, and whether the norm is rational
NormSquared ==
    Add(Add(Mul(input.value[1], input.value[1]), Mul(input.value[2], input.value[2])),
        Mul(input.value[3], input.value[3]))
RationalNorm == IsSquare(NormSquared.n) /\ IsSquare(NormSquared.d)
Norm == Rat(IntSqrt(NormSquared.n), IntSqrt(NormSquared.d))

\* C18: for a non-zero vector (of rational norm) the Vector variant returns,
\* per axis a of the vector normalised to unit length, sRGB((1 + a) / 2)
\* clamped to [0, 1].
C18_VectorFormula ==
    (pc = "returned" /\ input.tonemap = "Vector"
       /\ ~normIsZero(input.value) /\ RationalNorm) =>
       output = [c \in 1..3 |->
                   clampUnit(toSRGB(Mul(Rat(1, 2),
                                        Add(Num(1), Div(input.value[c], Norm)))))]

\* t of the FalseColor variant, and the ramp position t * (stopCount - 1)
RampT == clampFloat(falseColorLinear(input.value), Num(0), Num(1))
RampPosition == Mul(RampT, Num(Len(turbo) - 1))
RampLow == castToInt(RampPosition, 0)
RampHigh == Min2(RampLow + 1, Len(turbo) - 1)

\* C19: FalseColor returns the ramp interpolated linearly between the two
\* stops nearest to the position t * (stopCount - 1): the first stop for
\* t = 0, the last for t = 1, stop k for t = k / (stopCount - 1); the two
\* stops read are within 0 .. stopCount - 1.
C19_RampInterpolation ==
    (pc = "returned" /\ input.tonemap = "FalseColor") =>
       /\ \A k \in 0..(Len(turbo) - 1) :
             RampT = Rat(k, Len(turbo) - 1) => output = turbo[k + 1]
       /\ output = [c \in 1..3 |->
                      Add(Mul(Sub(RampPosition, Num(RampLow)), turbo[RampHigh + 1][c]),
                          Mul(Sub(Num(RampLow + 1), RampPosition), turbo[RampLow + 1][c]))]
       /\ \A i \in 1..2 :
             falseColorStops(falseColorLinear(input.value))[i] \in 0..(Len(turbo) - 1)

-----------------------------------------------------------------------------
(* A session: the flags of the command line set the metric and the          *)
(* post-processing of the canvas (main.cpp 278-279), the GUI thread asks    *)
(* for the statistics and changes the crop, and the workers of              *)
(* mMeanValueThreadPool run the computations canvasStatistics scheduled.    *)
(* Here pool holds the tasks of mMeanValueThreadPool, one per Lazy a worker *)
(* has taken: "running" up to the first parallelFor, "waiting" in the wait  *)
(* for the tasks it queued, "joined" after it, "done" when the result is    *)
(* stored and "faulted" when the computation ended with the runtime_error   *)
(* of an operator. output maps a computation a worker has taken to the      *)
(* arguments its lambda passes to computeCanvasStatistics.                  *)

\* toMetric / toPostProcessing of the flag's string: a variant of the enum
toMetric == {"Error", "Division"}
toPostProcessing == EPostProcessing

InitSession ==
    /\ mImage = ImageA.id
    /\ mReference = 0
    /\ mRequestedChannelGroup = "rgba"
    /\ mMetric = "Error"
    /\ mPostProcessing = "Identity"
    /\ mIsCropped = FALSE
    /\ mCropMin = <<0, 0>>
    /\ mCropMax = <<0, 0>>
    /\ IdleCache
    /\ pc = "flags"
    /\ input = <<>>
    /\ output = <<>>
    /\ pool = <<>>

\* main.cpp 278-279: app->setMetric(toMetric(..)), app->setPostProcessing(..)
applyFlags ==
    /\ pc = "flags"
    /\ mMetric' \in toMetric
    /\ mPostProcessing' \in toPostProcessing
    /\ pc' = "canvas"
    /\ UNCHANGED <<mImage, mReference, mRequestedChannelGroup, mIsCropped,
                   mCropMin, mCropMax, cacheVars, input, output, pool>>

\* the computations a worker of the pool holds
busyWorkers(tasks) ==
    Cardinality({h \in DOMAIN tasks : tasks[h] \in {"running", "waiting", "joined"}})

\* the computations in the queue of mMeanValueThreadPool
queuedComputations ==
    {h \in DOMAIN lazies : lazies[h].scheduled > 0 /\ h \notin DOMAIN pool}

\* the tasks of a parallelFor queued on mMeanValueThreadPool itself: they get
\* the workers no computation holds
parallelForWorkersOfStatisticsPool(tasks) == PoolThreads - busyWorkers(tasks)

\* the threads that run the tasks of a parallelFor of the computation: those
\* of the ThreadPool declared in the function (lines 585 and 764)
parallelForWorkers(tasks) == PoolThreads

\* the members of the canvas as they are now, the images as their ids
members == newLazy(Settings).captured

\* the arguments read from the members of the canvas when the lambda runs
lambdaArgumentsFromMembers(captured, current) == current

\* the arguments the lambda of lines 548-557 passes to
\* computeCanvasStatistics: the copies it captured by value
lambdaArguments(captured, current) == captured

\* what the Lazy computes from the arguments of its lambda (lines 548-557)
lazyComposite(c) ==
    channelsFromImages(LoadedImage(c.image), LoadedImage(c.reference),
                       c.group, c.metric, c.postProcessing)

\* an operator threw while a sample of the composite was computed
compositeThrows(channels) ==
    \E i \in 1..Len(channels) :
        \E j \in DOMAIN channels[i].data : channels[i].data[j] = Throw

\* result->mean of computeCanvasStatistics for the arguments of the lambda
lazyMean(c) ==
    LET flattened == lazyComposite(c)
        size == LoadedImage(c.image).size
    IN  resultMean(nChannelsOf(flattened),
                   accumulated(reordered(flattened), nChannelsOf(flattened),
                               cropRectangle(c.isCropped, c.cropMin, c.cropMax, size),
                               size[1]))

WorkerStep ==
    UNCHANGED <<canvasVars, cacheVars, pc, input>>

\* a free worker of mMeanValueThreadPool takes the computation from the queue
workerTake(h) ==
    /\ h \in queuedComputations
    /\ busyWorkers(pool) < PoolThreads
    /\ pool' = pool @@ (h :> "running")
    /\ output' = output @@ (h :> lambdaArguments(lazies[h].captured, members))
    /\ WorkerStep

\* the computation queues the tasks of its parallelFor and waits for them
parallelFor(h) ==
    /\ h \in DOMAIN pool
    /\ pool[h] = "running"
    /\ pool' = [pool EXCEPT ![h] = "waiting"]
    /\ UNCHANGED output
    /\ WorkerStep

\* the tasks run, on the threads of the pool they were queued on; the
\* exception of a task ends the computation
parallelForTasks(h) ==
    /\ h \in DOMAIN pool
    /\ pool[h] = "waiting"
    /\ parallelForWorkers(pool) > 0
    /\ pool' = [pool EXCEPT ![h] =
                   IF compositeThrows(lazyComposite(output[h]))
                   THEN "faulted" ELSE "joined"]
    /\ UNCHANGED output
    /\ WorkerStep

\* the computation returns; the result the Lazy then holds is a function of
\* the arguments of its lambda (lazyMean for its mean)
workerFinish(h) ==
    /\ h \in DOMAIN pool
    /\ pool[h] = "joined"
    /\ pool' = [pool EXCEPT ![h] = "done"]
    /\ UNCHANGED output
    /\ WorkerStep

Worker ==
    \E h \in DOMAIN lazies :
        \/ workerTake(h)
        \/ parallelFor(h)
        \/ parallelForTasks(h)
        \/ workerFinish(h)

NextSession ==
    \/ applyFlags
    \/ canvasStatistics
    \/ setCrop
    \/ \E h \in DOMAIN lazies : workerTake(h)
    \/ \E h \in DOMAIN lazies : parallelFor(h)
    \/ \E h \in DOMAIN lazies : parallelForTasks(h)
    \/ \E h \in DOMAIN lazies : workerFinish(h)

SpecSession == InitSession /\ [][NextSession]_vars

\* the worker threads are scheduled fairly; the GUI thread need not act
FairSession == SpecSession /\ WF_vars(Worker)

\* C17: no computation of the session ends with the fault of an operator
\* called with a variant it has no case for: whatever the flags of the
\* command line are, such a fault is not reachable.
C17_NoFaultFromUserInput ==
    \A h \in DOMAIN pool : pool[h] # "faulted"

\* the scheduled computations that have not ended
Pending ==
    {h \in DOMAIN lazies :
        /\ lazies[h].scheduled > 0
        /\ (h \in DOMAIN pool => pool[h] \notin {"done", "faulted"})}

\* how far a computation is
Progress(tasks, h) ==
    IF h \notin DOMAIN tasks THEN 0
    ELSE CASE tasks[h] = "running" -> 1
           [] tasks[h] = "waiting" -> 2
           [] tasks[h] = "joined" -> 3
           [] OTHER -> 4

\* no step cancels or removes a scheduled computation, or sets it back
NoCancellation ==
    \A h \in DOMAIN lazies :
        lazies[h].scheduled > 0 =>
            /\ h \in DOMAIN lazies'
            /\ lazies'[h].scheduled > 0
            /\ lazies'[h].captured = lazies[h].captured
            /\ Progress(pool', h) >= Progress(pool, h)

\* a computation that waits for the tasks of its parallelFor has threads to
\* run them, however many computations hold or wait for a worker of
\* mMeanValueThreadPool
NeverWaitsOnOwnPool ==
    \A h \in DOMAIN pool : pool[h] = "waiting" => parallelForWorkers(pool) > 0

\* C20: under fair scheduling of the workers every scheduled computation
\* ends, whether or not a caller still holds its handle and whatever the
\* settings have become; no step cancels or removes a scheduled computation,
\* and a computation on the statistics pool never waits for a task queued
\* behind it in that pool.
C20_ScheduledComputationsComplete ==
    /\ [][NoCancellation]_vars
    /\ [](NeverWaitsOnOwnPool)
    /\ (Pending # {}) ~> (Pending = {})

\* a computation has completed although the caller's handle was dropped and
\* the crop is no longer the one it captured, and so has the one scheduled
\* after the change
C20_Witness ==
    \E h \in DOMAIN pool :
        /\ pool[h] = "done"
        /\ IsNum(lazyMean(output[h]))
        /\ lastRequest.handle # h
        /\ lazies[h].captured.isCropped # mIsCropped
        /\ \E g \in DOMAIN pool : g # h /\ pool[g] = "done"

-----------------------------------------------------------------------------
(* The image files and channel selectors of main.cpp: the positional        *)
(* arguments of a primary instance (lines 250-258), the lines of stdin      *)
(* (lines 200-220) and the positional arguments of a secondary instance,    *)
(* which sends them to the primary one (lines 171-187). A string is a       *)
(* sequence of characters. input is [source, arguments], output the locals  *)
(* of the loop: the index i of the next argument, channelSelector, the      *)
(* calls of imagesLoader->enqueue made and the messages sent.               *)

\* the strings given as arguments or lines: empty, files, selectors (empty,
\* plain, with a ':' inside), a file with a ':' inside
ArgumentStrings ==
    { <<>>, <<"a">>, <<"b">>, <<"a", ":", "b">>,
      <<":">>, <<":", "r">>, <<":", "r", ":", "g">> }

\* at most MaxArguments arguments or lines
MaxArguments == 3

ArgumentLists ==
    UNION {[1..n -> ArgumentStrings] : n \in 0..MaxArguments}

\* !imageFile.empty() && imageFile[0] == ':'
isSelector(imageFile) == Len(imageFile) > 0 /\ imageFile[1] = ":"

\* the whole argument, ':' included
substr0(imageFile) == imageFile

\* imageFile.substr(1)
substr1(imageFile) == SubSeq(imageFile, 2, Len(imageFile))

\* tev::ensureUtf8 of a line: the lines here are ASCII, which it leaves as is
ensureUtf8(line) == line

\* path{imageFile}.make_absolute(): the path under the working directory;
\* resolves tells whether the file system resolves it (it throws if not)
make_absolute(imageFile) == <<"/">> \o imageFile

\* tfm::format("%s:%s", path, channelSelector)
formatMessage(file, channelSelector) == file \o <<":">> \o channelSelector

InitArguments ==
    /\ IdleCanvas /\ IdleCache
    /\ pc = "arguments"
    /\ input \in [source : {"commandLine", "stdin", "secondary"},
                  arguments : ArgumentLists]
    /\ output = [i |-> 1, channelSelector |-> <<>>, enqueued |-> <<>>,
                 sent |-> <<>>, invalid |-> <<>>]
    /\ pool = <<>>

ArgumentStep(next) ==
    /\ output' = [next EXCEPT !.i = output.i + 1]
    /\ UNCHANGED <<pc, input, pool, canvasVars, cacheVars>>

\* one iteration of the loop of lines 251-258
commandLineArgument ==
    /\ pc = "arguments" /\ input.source = "commandLine"
    /\ output.i <= Len(input.arguments)
    /\ LET imageFile == input.arguments[output.i]
       IN  IF isSelector(imageFile)
           THEN ArgumentStep([output EXCEPT !.channelSelector = substr1(imageFile)])
           ELSE ArgumentStep([output EXCEPT !.enqueued =
                   Append(@, [file |-> imageFile,
                              selector |-> output.channelSelector,
                              at |-> output.i])])

\* one iteration of the getline loop of lines 203-216
stdinLine ==
    /\ pc = "arguments" /\ input.source = "stdin"
    /\ output.i <= Len(input.arguments)
    /\ LET imageFile == ensureUtf8(input.arguments[output.i])
       IN  IF Len(imageFile) = 0
           THEN ArgumentStep(output)
           ELSE IF imageFile[1] = ":"
           THEN ArgumentStep([output EXCEPT !.channelSelector = substr1(imageFile)])
           ELSE ArgumentStep([output EXCEPT !.enqueued =
                   Append(@, [file |-> imageFile,
                              selector |-> output.channelSelector,
                              at |-> output.i])])

\* one iteration of the loop of lines 172-184
secondaryArgument ==
    /\ pc = "arguments" /\ input.source = "secondary"
    /\ output.i <= Len(input.arguments)
    /\ LET imageFile == input.arguments[output.i]
       IN  IF isSelector(imageFile)
           THEN ArgumentStep([output EXCEPT !.channelSelector = substr1(imageFile)])
           ELSE \E resolves \in BOOLEAN :
                   IF resolves
                   THEN ArgumentStep([output EXCEPT !.sent =
                           Append(@, [message |->
                                         formatMessage(make_absolute(imageFile),
                                                       output.channelSelector),
                                      at |-> output.i])])
                   ELSE ArgumentStep([output EXCEPT !.invalid = Append(@, output.i)])

NextArguments ==
    \/ commandLineArgument
    \/ stdinLine
    \/ secondaryArgument

SpecArguments == InitArguments /\ [][NextArguments]_vars

\* the loop has gone through all the arguments
ArgumentsDone == pc = "arguments" /\ output.i > Len(input.arguments)

\* the argument is a selector: it starts with ':'; its text is what follows
StartsWithColon(argument) == argument # <<>> /\ Head(argument) = ":"
AfterColon(argument) == Tail(argument)

\* the positions of the arguments that do not start with ':'
FilePositions ==
    {k \in 1..Len(input.arguments) : ~StartsWithColon(input.arguments[k])}

\* the text after ':' of the most recent selector before position k
SelectorBefore(k) ==
    LET earlier == {j \in 1..(k - 1) : StartsWithColon(input.arguments[j])}
    IN  IF earlier = {} THEN <<>>
        ELSE AfterColon(input.arguments[CHOOSE j \in earlier :
                                           \A m \in earlier : m <= j])

\* calls is, in order, one call for each position of the set, with the
\* argument there and the selector before it
OnePerPosition(calls, positions) ==
    /\ Len(calls) = Cardinality(positions)
    /\ \A n \in 1..Len(calls) :
          /\ calls[n].at \in positions
          /\ \A m \in 1..(n - 1) : calls[m].at < calls[n].at

EnqueuedAsGiven ==
    \A n \in 1..Len(output.enqueued) :
        /\ output.enqueued[n].file = input.arguments[output.enqueued[n].at]
        /\ output.enqueued[n].selector = SelectorBefore(output.enqueued[n].at)

SentAsGiven ==
    \A n \in 1..Len(output.sent) :
        output.sent[n].message =
            formatMessage(make_absolute(input.arguments[output.sent[n].at]),
                          SelectorBefore(output.sent[n].at))

\* C21 as stated: when the arguments (or lines) have been gone through, no
\* selector has been enqueued or sent, and every other argument has been
\* enqueued exactly once, in order, with the selector before it.
C21_EveryFileEnqueuedOnce ==
    (ArgumentsDone /\ input.source \in {"commandLine", "stdin"}) =>
        /\ OnePerPosition(output.enqueued, FilePositions)
        /\ EnqueuedAsGiven

\* C21: when the arguments (or lines) have been gone through, no selector has
\* been enqueued or sent; every other argument of the command line has been
\* enqueued exactly once, in order, with the selector before it, and so has
\* every other line of stdin that is not empty; a secondary instance has sent
\* every other argument whose path resolved exactly once, in order, with the
\* selector before it.
C21_EveryNamedFileEnqueuedOnce ==
    ArgumentsDone =>
        /\ EnqueuedAsGiven
        /\ SentAsGiven
        /\ input.source = "commandLine" =>
              OnePerPosition(output.enqueued, FilePositions)
        /\ input.source = "stdin" =>
              OnePerPosition(output.enqueued,
                             {k \in FilePositions : Len(input.arguments[k]) > 0})
        /\ input.source = "secondary" =>
              /\ output.enqueued = <<>>
              /\ OnePerPosition(output.sent,
                                FilePositions \ {output.invalid[n] :
                                                    n \in 1..Len(output.invalid)})

\* stdin: a selector, an empty line and a file have been read; the file alone
\* is enqueued, with the selector
C21_Witness ==
    /\ ArgumentsDone
    /\ input.source = "stdin"
    /\ input.arguments = << <<":", "r">>, <<>>, <<"b">> >>
    /\ Len(output.enqueued) = 1
    /\ output.enqueued[1].file = <<"b">>
    /\ output.enqueued[1].selector = <<"r">>

-----------------------------------------------------------------------------
(* The message a secondary instance sends for an image (main.cpp 179) and   *)
(* the handler of the primary instance that receives it (lines 239-243).    *)

\* std::string::npos, the largest size_t (here 30 bits wide)
npos == 1073741823

\* unsigned arithmetic of size_t
sizeSub(a, b) == (a - b + npos + 1) % (npos + 1)
sizeAdd(a, b) == (a + b) % (npos + 1)

\* string::find_last_of(":"): the 0-based position of the last ':', or npos
find_last_of(str, c) ==
    IF LastIndexOf(str, c) = 0 THEN npos ELSE LastIndexOf(str, c) - 1

\* string::substr(pos, count), for pos <= length
substr(str, pos, n) == SubSeq(str, pos + 1, Min2(Len(str), pos + n))

\* string::substr(pos), for pos <= length
substrFrom(str, pos) == SubSeq(str, pos + 1, Len(str))

\* the two arguments of imagesLoader->enqueue in the handler of lines 239-243
receivedImage(reveicedString) ==
    LET imageString == ensureUtf8(reveicedString)
        colonPos == Min2(sizeSub(Len(imageString), 1), find_last_of(imageString, ":"))
    IN  [file |-> substr(imageString, 0, colonPos),
         selector |-> substrFrom(imageString, sizeAdd(colonPos, 1))]

\* the absolute paths and the selectors sent: strings of at most MaxPathLength
\* and MaxSelectorLength characters
MaxPathLength == 3
MaxSelectorLength == 3

StringsOver(alphabet, n) == UNION {[1..m -> alphabet] : m \in 0..n}

IpcPaths ==
    {<<"/">> \o s : s \in StringsOver({"a", "/", ":"}, MaxPathLength - 1)}
IpcSelectors == StringsOver({"r", ",", ":"}, MaxSelectorLength)

InitIpc ==
    /\ IdleCanvas /\ IdleCache
    /\ pc = "secondary"
    /\ input \in [path : IpcPaths, selector : IpcSelectors]
    /\ output = <<>>
    /\ pool = <<>>

\* ipc->sendToPrimaryInstance(tfm::format("%s:%s", path, channelSelector))
sendToPrimaryInstance ==
    /\ pc = "secondary"
    /\ output' = formatMessage(input.path, input.selector)
    /\ pc' = "sent"
    /\ UNCHANGED <<input, pool, canvasVars, cacheVars>>

\* ipc->receiveFromSecondaryInstance(handler): the handler runs on the message
receiveFromSecondaryInstance ==
    /\ pc = "sent"
    /\ output' = receivedImage(output)
    /\ pc' = "enqueued"
    /\ UNCHANGED <<input, pool, canvasVars, cacheVars>>

NextIpc ==
    \/ sendToPrimaryInstance
    \/ receiveFromSecondaryInstance

SpecIpc == InitIpc /\ [][NextIpc]_vars

\* C26: the handler enqueues exactly the path and exactly the selector the
\* secondary instance put into the message, also when the selector is empty,
\* the path contains ':' or the selector contains ':'.
C26_MessageRoundTrips ==
    pc = "enqueued" =>
        /\ output.file = input.path
        /\ output.selector = input.selector

-----------------------------------------------------------------------------
(* getValuesAtNanoPos (lines 248-276): the values shown for the pixel under *)
(* the mouse. getImageCoords maps the mouse position to a pixel of each     *)
(* image through the display transform; the pixel of the primary is an      *)
(* input here and that of the reference is the one the centring puts under  *)
(* it.                                                                      *)

\* getImageCoords(*mReference, nanoPos), given that of the primary
referenceCoords(image, reference, x, y) ==
    LET offset == centeringOffset(reference.size, image.size)
    IN  <<x + offset[1], y + offset[2]>>

\* result after the call, for the listed channel names
getValuesAtNanoPos(image, reference, group, metric, postProcessing, channels, x, y) ==
    IF IsNull(image) THEN <<>>
    ELSE LET values == [i \in 1..Len(channels) |->
                          evalAt(channel(image, channels[i]), x, y)]
         IN  IF IsNull(reference) THEN values
             ELSE LET coords == referenceCoords(image, reference, x, y)
                      referenceChannels == channelsInGroup(reference, group)
                  IN  [i \in 1..Len(values) |->
                         LET r == IF i <= Len(referenceChannels)
                                  THEN evalAt(channel(reference, referenceChannels[i]),
                                              coords[1], coords[2])
                                  ELSE Num(0)
                         IN  applyMetric(applyPostProcessing(values[i], postProcessing),
                                         applyPostProcessing(r, postProcessing),
                                         metric)]

ValueSizes == {<<2, 1>>}
ValueListings == { << <<"R">> >>, << <<"R">>, <<"G">> >> }
ValueReferenceListings == { << <<"R">> >>, << <<"R">>, <<"G">> >> }

InitValues ==
    /\ IdleCanvas /\ IdleCache
    /\ pc = "getValuesAtNanoPos"
    /\ \E c \in CompositeInputs(ValueSizes, ValueListings, ValueReferenceListings,
                                EMetric, CpuPostProcessing) :
          \E x \in 0..(c.image.size[1] - 1), y \in 0..(c.image.size[2] - 1) :
             input = [image |-> c.image, reference |-> c.reference, group |-> c.group,
                      metric |-> c.metric, postProcessing |-> c.postProcessing,
                      x |-> x, y |-> y]
    /\ output = <<>>
    /\ pool = <<>>

CallGetValuesAtNanoPos ==
    /\ pc = "getValuesAtNanoPos"
    /\ output' = getValuesAtNanoPos(input.image, input.reference, input.group,
                                    input.metric, input.postProcessing,
                                    channelsInGroup(input.image, input.group),
                                    input.x, input.y)
    /\ pc' = "returned"
    /\ UNCHANGED <<input, pool, canvasVars, cacheVars>>

NextValues == CallGetValuesAtNanoPos

SpecValues == InitValues /\ [][NextValues]_vars

\* C22: the value getValuesAtNanoPos reports for channel i at the pixel is
\* the sample the composite of channelsFromImages has for that channel at that
\* pixel: post-processing applied after the metric with a reference,
\* post-processing of the primary sample without one.
C22_ValuesAreCompositeSamples ==
    pc = "returned" =>
        LET composite == channelsFromImages(input.image, input.reference, input.group,
                                            input.metric, input.postProcessing)
        IN  /\ Len(output) = Len(composite)
            /\ \A i \in 1..Len(output) :
                  output[i] = eval(composite[i], input.x + input.y * input.image.size[1])

-----------------------------------------------------------------------------
(* The parallel sections of ImageCanvas.cpp, as accesses to memory cells.   *)
(* A cell is [array, index]. An item of a parallelFor is the sequence of    *)
(* its statements, each [writes, reads, op]: the cells it writes, the cells *)
(* it reads, and a name for what it computes. The value of a cell is a      *)
(* term: <<"init", cell>> before the section, and <<op, cell, values read>> *)
(* after a statement wrote it. Any two items may be given to different      *)
(* tasks, so every item is a task here; pool maps an item to its state and  *)
(* to the statement it executes next, and output is the memory.             *)

Cell(array, index) == [array |-> array, index |-> index]

Statement(writes, reads, op) == [writes |-> writes, reads |-> reads, op |-> op]

\* channels as far as the reordering of computeCanvasStatistics reads them
Named(listing) == [i \in 1..Len(listing) |-> [name |-> toUpper(tail(listing[i]))]]

\* nChannelsToSave, line 406
nChannelsToSave(listing) == Min2(Len(listing), HdrComponents)

\* min(nChannelsToSave, 4): the alpha component divided as well
divideAlphaItemsWithAlpha(listing) == Min2(nChannelsToSave(listing), 4)

\* min(nChannelsToSave, 3), line 428
divideAlphaItems(listing) == Min2(nChannelsToSave(listing), 3)

\* indices(j, i) as the index phase left it: all elements in one bin, or
\* neighbouring elements in two bins
binOf(binSeed, j, i) == binSeed * ((i + j) % 2)

\* the items of the parallelFor (parallelForNoWait) calls of the section
items(section, listing, numPixels) ==
    CASE section = "channelsFromImages" -> 0..(Len(listing) - 1)
      [] section = "indexPhase" ->
            (0..(nChannelsOf(Named(listing)) - 1)) \X (0..(numPixels - 1))
      [] section = "accumulatePhase" -> 0..(nChannelsOf(Named(listing)) - 1)
      [] section = "hdrCopy" -> 0..(nChannelsToSave(listing) - 1)
      [] section = "hdrDivideAlpha" -> 0..(divideAlphaItems(listing) - 1)
      [] section = "ldr" -> 0..(numPixels - 1)

\* the statements of an item, in the order the item executes them
statements(section, item, numPixels, binSeed) ==
    CASE section = "channelsFromImages" ->
            \* lines 586-590 and 598-649: result[i].at(j) from the samples of
            \* channel i of the image and of the reference
            [jj \in 1..numPixels |->
                Statement({Cell("result", <<item, jj - 1>>)},
                          <<Cell("image", <<item, jj - 1>>),
                            Cell("reference", <<item, jj - 1>>)>>,
                          "sample")]
      [] section = "indexPhase" ->
            \* line 768: indices(j, i) = valToBin(channel.eval(j))
            <<Statement({Cell("indices", <<item[2], item[1]>>)},
                        <<Cell("flattened", <<item[1], item[2]>>)>>,
                        "valToBin")>>
      [] section = "accumulatePhase" ->
            \* line 775: histogram(indices(j, i), i) += alpha
            [jj \in 1..numPixels |->
                LET cell == Cell("histogram", <<binOf(binSeed, jj - 1, item), item>>)
                IN  Statement({cell},
                              <<cell, Cell("indices", <<jj - 1, item>>),
                                Cell("alpha", <<jj - 1>>)>>,
                              "+=")]
      [] section = "hdrCopy" ->
            \* line 415: result[j * 4 + i] = channelData(j)
            [jj \in 1..numPixels |->
                Statement({Cell("result", <<(jj - 1) * 4 + item>>)},
                          <<Cell("channels", <<item, jj - 1>>)>>,
                          "=")]
      [] section = "hdrDivideAlpha" ->
            \* lines 430-435: alpha = result[j * 4 + 3]; result[j * 4 + i] /= alpha
            [jj \in 1..numPixels |->
                Statement({Cell("result", <<(jj - 1) * 4 + item>>)},
                          <<Cell("result", <<(jj - 1) * 4 + item>>),
                            Cell("result", <<(jj - 1) * 4 + 3>>)>>,
                          "/=")]
      [] section = "ldr" ->
            \* lines 458-469: the tonemapped value of floatData[start .. start + 2]
            \* stored back, then the four components converted into result
            <<Statement({Cell("floatData", <<4 * item + j>>) : j \in 0..2},
                        [k \in 1..3 |-> Cell("floatData", <<4 * item + k - 1>>)],
                        "applyTonemap")>>
            \o [k \in 1..4 |->
                  Statement({Cell("ldrResult", <<4 * item + k - 1>>)},
                            <<Cell("floatData", <<4 * item + k - 1>>)>>,
                            "(char)")]

\* the cells an item writes, and those it reads
writesOf(section, item, numPixels, binSeed) ==
    LET s == statements(section, item, numPixels, binSeed)
    IN  UNION {s[k].writes : k \in 1..Len(s)}
readsOf(section, item, numPixels, binSeed) ==
    LET s == statements(section, item, numPixels, binSeed)
    IN  UNION {Range(s[k].reads) : k \in 1..Len(s)}

\* memory after the statement
execute(memory, statement) ==
    LET read == [k \in 1..Len(statement.reads) |-> memory[statement.reads[k]]]
    IN  [c \in DOMAIN memory |->
            IF c \in statement.writes THEN <<statement.op, c, read>> ELSE memory[c]]

\* the cells of the section, with their values before it
initialMemory(section, listing, numPixels, binSeed) ==
    LET all == UNION {writesOf(section, it, numPixels, binSeed)
                          \cup readsOf(section, it, numPixels, binSeed)
                      : it \in items(section, listing, numPixels)}
    IN  [c \in all |-> <<"init", c>>]

MaxParallelPixels == 2

ParallelInputs ==
    [section : {"channelsFromImages", "hdrCopy", "hdrDivideAlpha"},
     listing : HdrListings, numPixels : 1..MaxParallelPixels, binSeed : {0}]
    \cup [section : {"indexPhase"},
          listing : StatListings, numPixels : 1..MaxParallelPixels, binSeed : {0}]
    \cup [section : {"accumulatePhase"},
          listing : StatListings, numPixels : 1..MaxParallelPixels, binSeed : {0, 1}]
    \cup [section : {"ldr"},
          listing : {<< <<"R">> >>}, numPixels : 1..MaxParallelPixels, binSeed : {0}]

parItems == items(input.section, input.listing, input.numPixels)
parStatements(item) ==
    statements(input.section, item, input.numPixels, input.binSeed)

InitParallel ==
    /\ IdleCanvas /\ IdleCache
    /\ pc = "parallelFor"
    /\ input \in ParallelInputs
    /\ output = initialMemory(input.section, input.listing, input.numPixels,
                              input.binSeed)
    /\ pool = [it \in parItems |-> [state |-> "queued", next |-> 1]]

\* a worker thread of the pool takes the item
parallelStart(item) ==
    /\ pc = "parallelFor"
    /\ pool[item].state = "queued"
    /\ Cardinality({u \in DOMAIN pool : pool[u].state = "running"}) < PoolThreads
    /\ pool' = [pool EXCEPT ![item].state = "running"]
    /\ UNCHANGED <<pc, input, output, canvasVars, cacheVars>>

\* the thread executes the next statement of the item
parallelStatement(item) ==
    /\ pc = "parallelFor"
    /\ pool[item].state = "running"
    /\ LET s == parStatements(item)
           k == pool[item].next
       IN  /\ output' = execute(output, s[k])
           /\ pool' = [pool EXCEPT ![item] =
                          [state |-> IF k = Len(s) THEN "done" ELSE "running",
                           next |-> k + 1]]
    /\ UNCHANGED <<pc, input, canvasVars, cacheVars>>

\* parallelFor (waitUntilFinished) returns
parallelJoin ==
    /\ pc = "parallelFor"
    /\ \A it \in DOMAIN pool : pool[it].state = "done"
    /\ pc' = "joined"
    /\ UNCHANGED <<input, output, pool, canvasVars, cacheVars>>

NextParallel ==
    \/ \E item \in DOMAIN pool : parallelStart(item)
    \/ \E item \in DOMAIN pool : parallelStatement(item)
    \/ parallelJoin

SpecParallel == InitParallel /\ [][NextParallel]_vars

RECURSIVE RunStatements(_, _, _)
\* memory after the statements from the k-th on
RunStatements(memory, s, k) ==
    IF k > Len(s) THEN memory ELSE RunStatements(execute(memory, s[k]), s, k + 1)

RECURSIVE RunItems(_, _)
\* memory after the items of the set have run one after the other
RunItems(memory, remaining) ==
    IF remaining = {} THEN memory
    ELSE LET it == CHOOSE x \in remaining : TRUE
         IN  RunItems(RunStatements(memory, parStatements(it), 1), remaining \ {it})

\* what the section leaves in memory when its items run one at a time
SequentialMemory ==
    RunItems(initialMemory(input.section, input.listing, input.numPixels,
                           input.binSeed), parItems)

ItemWrites(it) == writesOf(input.section, it, input.numPixels, input.binSeed)
ItemReads(it) == readsOf(input.section, it, input.numPixels, input.binSeed)

\* C23: two items of a parallel section that run at the same time never
\* write the same cell, and neither reads a cell the other writes; when the
\* section has returned, memory is what running the items one after the other
\* leaves, whatever the interleaving was.
C23_ParallelSectionsAreRaceFree ==
    /\ \A a \in DOMAIN pool, b \in DOMAIN pool :
          (a # b /\ pool[a].state = "running" /\ pool[b].state = "running") =>
              /\ ItemWrites(a) \cap ItemWrites(b) = {}
              /\ ItemWrites(a) \cap ItemReads(b) = {}
    /\ pc = "joined" => output = SequentialMemory

\* the alpha division of a four-channel buffer of two pixels has returned:
\* three items ran, each read the alpha component of both pixels
C23_Witness ==
    /\ pc = "joined"
    /\ input.section = "hdrDivideAlpha"
    /\ Len(input.listing) = 4
    /\ input.numPixels = 2
    /\ Cardinality(DOMAIN pool) = 3
    /\ \A it \in DOMAIN pool : Cell("result", <<7>>) \in ItemReads(it)
    /\ output[Cell("result", <<7>>)] = <<"init", Cell("result", <<7>>)>>
    /\ output[Cell("result", <<4>>)][1] = "/="

\* the key canvasStatistics builds for a canvas with these members
keyOf(c) ==
    statisticsKey([c EXCEPT !.image = LoadedImage(c.image),
                            !.reference = LoadedImage(c.reference)])

\* C24: a computation that has completed was made with the image, reference,
\* channel group, metric, post-processing and crop that were current when
\* canvasStatistics made its Lazy, whatever the settings have become since:
\* its arguments are the values captured at the request, they give the key
\* its entry is stored under, and its mean is the mean for those values.
C24_ComputationUsesRequestParameters ==
    \A h \in DOMAIN pool :
        pool[h] = "done" =>
            /\ output[h] = lazies[h].captured
            /\ keyOf(output[h]) = h.key
            /\ \A n \in mMeanValues : n.handle = h => n.key = keyOf(output[h])
            /\ lazyMean(output[h]) = lazyMean(lazies[h].captured)

\* a computation requested without crop has completed while the canvas is
\* cropped, and it is stored under the key without crop
C24_Witness ==
    \E h \in DOMAIN pool :
        /\ pool[h] = "done"
        /\ mIsCropped
        /\ ~output[h].isCropped
        /\ [key |-> keyOf(output[h]), handle |-> h] \in mMeanValues
        /\ keyOf(members) # h.key

\* pixelCount after the loop of lines 706-721
statPixelCount ==
    accumulated(statFlattened, statChannels, statRectangle,
                input.image.size[1]).pixelCount

\* C25: when the composite has a data channel, the statistics returned have a
\* mean whose denominator (pixelCount) is not zero and that lies between the
\* minimum and the maximum, for every crop rectangle and every image content.
C25_MeanBetweenMinimumAndMaximum ==
    (pc = "returned" /\ statChannels > 0) =>
        /\ statPixelCount # 0
        /\ LessEq(output.result.minimum, output.result.mean)
        /\ LessEq(output.result.mean, output.result.maximum)

=============================================================================
